---- MODULE Spec2Model ----
(***************************************************************************)
(* Model of the product matching and validation core of A-Patricia:        *)
(*   - PriceValidator.validate_products and its caller, the tail of        *)
(*     SlackHandler._handle_image_analysis (specification Spec);           *)
(*   - VisionService._parse_gemini_response with its repair and regex      *)
(*     fallbacks (specification SpecExtract);                              *)
(*   - handle_message, _process_message and _cleanup_message under         *)
(*     concurrent deliveries (SpecMessages, SpecMessagesFair);             *)
(*   - the web-admin requests upload_file and delete_file (SpecAdmin).     *)
(*                                                                         *)
(* Representation.  A Python str is a sequence of one-character strings,   *)
(* so that upper(), strip() and comparisons with literals are computed.    *)
(* An Optional value is a record [some, v].  Prices are exact amounts in   *)
(* hundredths (1.0 is 100); similarity scores are in hundredths too.       *)
(***************************************************************************)
EXTENDS Integers, Sequences, FiniteSets, TLC

VARIABLES
    pc,                \* position of the image-analysis run
    productos_imagen,  \* argument of validate_products
    answer,            \* what the search capability answers, per query string
    search_results,    \* dict returned by search_products_batch
    validaciones,      \* list returned by validate_products
    reactions,         \* reaction requests sent to Slack, in order
    said,              \* messages sent with say(), in order
    text,              \* argument of _parse_gemini_response (tokens)
    ex_pc,             \* position of the extraction run
    ex_in,             \* how the text was made (what a claim compares with)
    ex_data,           \* data, the value json.loads returned
    ex_trace,          \* the stages of the fallback chain attempted so far
    extracted,         \* outcome of _parse_gemini_response
    products,          \* outcome of _deduplicate_products, handed to validation
    cmp,               \* a call of _compare_prices: its arguments and result
    fn,                \* a call of another function of the core: its name,
                       \* argument and result
    allowed_users,     \* settings.get_allowed_users()
    processing_messages, \* SlackHandler.processing_messages
    runs,              \* the runs of _process_message admitted so far
    effects,           \* what the admitted runs asked of Slack, search and vision
    last,              \* the last event delivered and what became of it
    file_ids,          \* web-admin: the file ids generate_file_id has given out
    file_registry,     \* web-admin: file_id -> file_info
    index,             \* web-admin: the number of points indexed per file_id
    objects,           \* web-admin: the file ids with a stored object
    response           \* web-admin: the last request and its HTTP status

vars == << pc, productos_imagen, answer, search_results, validaciones,
           reactions, said, text, ex_pc, ex_in, ex_data, ex_trace, extracted,
           products, cmp, fn, allowed_users, processing_messages, runs,
           effects, last, file_ids, file_registry, index, objects, response >>

val_vars == << pc, productos_imagen, answer, search_results, validaciones,
               reactions, said >>

msg_vars == << allowed_users, processing_messages, runs, effects, last >>

adm_vars == << file_ids, file_registry, index, objects, response >>

ex_vars == << text, ex_pc, ex_in, ex_data, ex_trace, extracted, products >>

-----------------------------------------------------------------------------
(* Strings *)

LowerLetters == << "a","b","c","d","e","f","g","h","i","j","k","l","m",
                   "n","o","p","q","r","s","t","u","v","w","x","y","z",
                   "á","é","í","ó","ú","ñ" >>

UpperLetters == << "A","B","C","D","E","F","G","H","I","J","K","L","M",
                   "N","O","P","Q","R","S","T","U","V","W","X","Y","Z",
                   "Á","É","Í","Ó","Ú","Ñ" >>

IsSpace(c) == c \in {" ", "\t", "\n"}

UpperChar(c) ==
    IF \E i \in 1..Len(LowerLetters) : LowerLetters[i] = c
    THEN UpperLetters[CHOOSE i \in 1..Len(LowerLetters) : LowerLetters[i] = c]
    ELSE c

LowerChar(c) ==
    IF \E i \in 1..Len(UpperLetters) : UpperLetters[i] = c
    THEN LowerLetters[CHOOSE i \in 1..Len(UpperLetters) : UpperLetters[i] = c]
    ELSE c

\* str.lower()
Lower(s) == [i \in 1..Len(s) |-> LowerChar(s[i])]

\* str.upper()
Upper(s) == [i \in 1..Len(s) |-> UpperChar(s[i])]

RECURSIVE LStrip(_)
LStrip(s) == IF s # << >> /\ IsSpace(Head(s)) THEN LStrip(Tail(s)) ELSE s

RECURSIVE RStrip(_)
RStrip(s) ==
    IF s # << >> /\ IsSpace(s[Len(s)]) THEN RStrip(SubSeq(s, 1, Len(s) - 1)) ELSE s

\* str.strip()
Strip(s) == RStrip(LStrip(s))

None == [some |-> FALSE, v |-> 0]
Some(x) == [some |-> TRUE, v |-> x]
NoneStr == [some |-> FALSE, v |-> << >>]

Abs(x) == IF x < 0 THEN -x ELSE x

STR_NULL == << "N","U","L","L" >>
STR_NONE == << "N","O","N","E" >>
DESCONOCIDO == << "D","E","S","C","O","N","O","C","I","D","O" >>

-----------------------------------------------------------------------------
(* Bounds and input domains of the validation run *)

MaxProducts == 2

PRICE_TOLERANCE_PERCENT == 5

\* A product dict as validate_products receives it: the key "nombre" may be
\* missing (both .get calls give a default), "precio" is None or a number.
ProductNames == { << "A" >>, DESCONOCIDO }

SourcePrices == { None, Some(10500), Some(10501) }

Products ==
    [has_nombre : {TRUE}, nombre : ProductNames, precio : SourcePrices]
    \cup [has_nombre : {FALSE}, nombre : {<< >>}, precio : SourcePrices]

RECURSIVE SeqsUpTo(_, _)
SeqsUpTo(S, n) ==
    IF n = 0 THEN {<< >>}
    ELSE LET shorter == SeqsUpTo(S, n - 1)
         IN shorter \cup { Append(q, x) : q \in shorter, x \in S }

ProductLists == SeqsUpTo(Products, MaxProducts)

\* Hits as the vector index returns them: a payload and a score.
Hit(id, nombre, has_precio, precio, score) ==
    [id |-> id, nombre |-> nombre, has_precio |-> has_precio,
     precio |-> precio, score |-> score]

HitHi  == Hit(1, << "A", "1" >>, TRUE, 10000, 95)
HitTie == Hit(2, << "A", "2" >>, TRUE, 0, 95)
HitLo  == Hit(3, << "A", "3" >>, TRUE, 100, 75)
HitNoPrice == Hit(4, << "A", "4" >>, FALSE, 0, 90)

\* The answers of client.search the model draws from: empty, one hit,
\* descending order, ascending order, a tie on the top score, a payload
\* without a price.
HitLists ==
    { << >>, << HitHi >>, << HitHi, HitLo >>, << HitLo, HitHi >>,
      << HitHi, HitTie >>, << HitTie, HitHi >>, << HitNoPrice >> }

SearchOutcomes ==
    [fail : {FALSE}, hits : HitLists] \cup [fail : {TRUE}, hits : {<< >>}]

-----------------------------------------------------------------------------
(* QdrantService.search_products_batch *)

\* queries = [p.get("nombre", "") for p in productos_imagen]
Queries(productos) ==
    [i \in 1..Len(productos) |->
        IF productos[i].has_nombre THEN productos[i].nombre ELSE << >>]

QuerySet(productos) == { Queries(productos)[i] : i \in 1..Len(productos) }

\* A conversion that gives a hit without a price the price 1.00.
ToProductMatchDefaultOne(hit) ==
    [id |-> hit.id, nombre |-> hit.nombre,
     precio |-> IF hit.has_precio THEN hit.precio ELSE 100,
     score |-> hit.score]

\* ProductMatch(... precio=float(payload.get("precio", 0)) ...)
ToProductMatch(hit) ==
    [id |-> hit.id, nombre |-> hit.nombre,
     precio |-> IF hit.has_precio THEN hit.precio ELSE 0,
     score |-> hit.score]

ToMatches(hits) == [j \in 1..Len(hits) |-> ToProductMatch(hits[j])]

\* The loop over zip(queries, embeddings): client.search raises for a failing
\* query and nothing catches it, so the whole call raises; otherwise
\* results[query] = matches, a later equal query overwriting an earlier one.
SearchProductsBatchSwallow(queries, ans) ==
    [raised |-> FALSE,
     results |-> [q \in { queries[i] : i \in 1..Len(queries) } |->
                    IF ans[q].fail THEN << >> ELSE ToMatches(ans[q].hits)]]

SearchProductsBatch(queries, ans) ==
    IF \E i \in 1..Len(queries) : ans[queries[i]].fail
    THEN [raised |-> TRUE, results |-> << >>]
    ELSE [raised |-> FALSE,
          results |-> [q \in { queries[i] : i \in 1..Len(queries) } |->
                          ToMatches(ans[q].hits)]]

-----------------------------------------------------------------------------
(* PriceValidator *)

\* _prices_match: abs(precio_imagen - precio_sistema) / precio_sistema
\* <= tolerance, with tolerance = PRICE_TOLERANCE_PERCENT / 100, decided
\* exactly by cross-multiplication (the sign of the divisor kept).
PricesMatchStrict(precio_imagen, precio_sistema) ==
    IF precio_sistema = 0 THEN precio_imagen = 0
    ELSE LET d == Abs(precio_imagen - precio_sistema)
         IN IF precio_sistema > 0
            THEN d * 100 < PRICE_TOLERANCE_PERCENT * precio_sistema
            ELSE d * 100 > PRICE_TOLERANCE_PERCENT * precio_sistema

PricesMatch(precio_imagen, precio_sistema) ==
    IF precio_sistema = 0 THEN precio_imagen = 0
    ELSE LET d == Abs(precio_imagen - precio_sistema)
         IN IF precio_sistema > 0
            THEN d * 100 <= PRICE_TOLERANCE_PERCENT * precio_sistema
            ELSE d * 100 >= PRICE_TOLERANCE_PERCENT * precio_sistema

\* _compare_prices with the difference taken the other way round.
ComparePricesSourceMinusMatched(precio_imagen, precio_sistema) ==
    IF ~precio_imagen.some \/ ~precio_sistema.some
    THEN [validacion |-> "UNKNOWN", diferencia |-> None, status |-> "NO_PRICE"]
    ELSE LET diferencia == precio_imagen.v - precio_sistema.v
         IN IF PricesMatch(precio_imagen.v, precio_sistema.v)
            THEN [validacion |-> "OK", diferencia |-> Some(diferencia),
                  status |-> "MATCH"]
            ELSE [validacion |-> "MISMATCH", diferencia |-> Some(diferencia),
                  status |-> "PRICE_DIFF"]

\* _compare_prices
ComparePrices(precio_imagen, precio_sistema) ==
    IF ~precio_imagen.some \/ ~precio_sistema.some
    THEN [validacion |-> "UNKNOWN", diferencia |-> None, status |-> "NO_PRICE"]
    ELSE LET diferencia == precio_sistema.v - precio_imagen.v
         IN IF PricesMatch(precio_imagen.v, precio_sistema.v)
            THEN [validacion |-> "OK", diferencia |-> Some(diferencia),
                  status |-> "MATCH"]
            ELSE [validacion |-> "MISMATCH", diferencia |-> Some(diferencia),
                  status |-> "PRICE_DIFF"]

\* nombre_imagen = producto.get("nombre", "DESCONOCIDO")
NombreImagen(producto) ==
    IF producto.has_nombre THEN producto.nombre ELSE DESCONOCIDO

\* matches = search_results.get(nombre_imagen, [])
MatchesFor(results, nombre_imagen) ==
    IF nombre_imagen \in DOMAIN results THEN results[nombre_imagen] ELSE << >>

\* One iteration of the loop of validate_products.
ValidateOne(producto, results) ==
    LET nombre_imagen == NombreImagen(producto)
        precio_imagen == producto.precio
        matches == MatchesFor(results, nombre_imagen)
    IN IF matches = << >>
       THEN [producto_imagen |-> nombre_imagen, precio_imagen |-> precio_imagen,
             producto_sistema |-> NoneStr, precio_sistema |-> None,
             validacion |-> "UNKNOWN", diferencia |-> None,
             status |-> "NOT_FOUND", match_score |-> None]
       ELSE LET best_match == matches[1]
                r == ComparePrices(precio_imagen, Some(best_match.precio))
            IN [producto_imagen |-> nombre_imagen, precio_imagen |-> precio_imagen,
                producto_sistema |-> [some |-> TRUE, v |-> best_match.nombre],
                precio_sistema |-> Some(best_match.precio),
                validacion |-> r.validacion, diferencia |-> r.diferencia,
                status |-> r.status, match_score |-> Some(best_match.score)]

\* for producto in productos_imagen: ... validaciones.append(...)
ValidateLoopByName(productos, results) ==
    LET names == { NombreImagen(productos[i]) : i \in 1..Len(productos) }
        firsts == { i \in 1..Len(productos) :
                      \A j \in 1..(i - 1) :
                         NombreImagen(productos[j]) # NombreImagen(productos[i]) }
        RECURSIVE Build(_)
        Build(i) ==
            IF i > Len(productos) THEN << >>
            ELSE IF i \in firsts
                 THEN << ValidateOne(productos[i], results) >> \o Build(i + 1)
                 ELSE Build(i + 1)
    IN Build(1)

ValidateLoop(productos, results) ==
    [i \in 1..Len(productos) |-> ValidateOne(productos[i], results)]

-----------------------------------------------------------------------------
(* PriceValidator._deduplicate_results and format_results_for_slack *)

\* key = v.producto_sistema if v.producto_sistema else v.producto_imagen
\* key = key.upper().strip() if key else ""
ResultKey(v) ==
    LET key == IF v.producto_sistema.some /\ v.producto_sistema.v # << >>
               THEN v.producto_sistema.v ELSE v.producto_imagen
    IN Strip(Upper(key))

RECURSIVE DedupResultsFrom(_, _, _)
DedupResultsFrom(vs, i, seen) ==
    IF i > Len(vs) THEN << >>
    ELSE LET key == ResultKey(vs[i])
         IN IF key = << >> \/ key = STR_NULL \/ key = STR_NONE
            THEN DedupResultsFrom(vs, i + 1, seen)
            ELSE IF key \in seen
                 THEN DedupResultsFrom(vs, i + 1, seen)
                 ELSE << vs[i] >> \o DedupResultsFrom(vs, i + 1, seen \cup {key})

DeduplicateResults(vs) == DedupResultsFrom(vs, 1, {})

Msg(kind, rows) == [kind |-> kind, rows |-> rows]

\* The message format_results_for_slack builds: the table of the deduplicated
\* results (its rows), or one of the two "no products" texts.
FormatResultsForSlack(vs) ==
    IF vs = << >> THEN Msg("no_products", << >>)
    ELSE IF DeduplicateResults(vs) = << >> THEN Msg("no_valid_products", << >>)
         ELSE Msg("results", DeduplicateResults(vs))

-----------------------------------------------------------------------------
(* SlackHandler._handle_image_analysis, for a message that carries a store  *)
(* id; validate_products is the two steps SearchBatch and Validate.        *)

Add(name) == [op |-> "add", name |-> name]
Remove(name) == [op |-> "remove", name |-> name]

\* Lines 198-230: the "eyes" reaction, the acknowledgment, the download and
\* the vision call, the early return when nothing was extracted, the progress
\* message.  Any of the awaited calls inside the try block may raise.
AnalyzeImage ==
    /\ pc = "idle"
    /\ \E ps \in ProductLists, fail_at \in {"ack", "vision", "say", "none"} :
          /\ productos_imagen' = IF fail_at \in {"ack", "vision"} THEN << >> ELSE ps
          /\ IF fail_at = "ack"
             THEN /\ reactions' = << Add("eyes") >>
                  /\ said' = << >>
                  /\ pc' = "except"
             ELSE IF fail_at = "vision"
             THEN /\ reactions' = << Add("eyes") >>
                  /\ said' = << Msg("ack", << >>) >>
                  /\ pc' = "except"
             ELSE IF ps = << >>
             THEN /\ reactions' = << Add("eyes"), Remove("eyes"), Add("warning") >>
                  /\ IF fail_at = "say"
                     THEN said' = << Msg("ack", << >>) >> /\ pc' = "except"
                     ELSE /\ said' = << Msg("ack", << >>), Msg("no_products", << >>) >>
                          /\ pc' = "done"
             ELSE /\ reactions' = << Add("eyes") >>
                  /\ IF fail_at = "say"
                     THEN said' = << Msg("ack", << >>) >> /\ pc' = "except"
                     ELSE /\ said' = << Msg("ack", << >>), Msg("progress", << >>) >>
                          /\ pc' = "searching"
    /\ UNCHANGED << answer, search_results, validaciones, ex_vars, cmp, fn, msg_vars, adm_vars >>

\* validate_products, lines 66-75: the batch search.  The capability answers
\* each distinct query string once (the same text and filter give the same
\* answer within one batch).
SearchBatch ==
    /\ pc = "searching"
    /\ \E ans \in [QuerySet(productos_imagen) -> SearchOutcomes] :
          LET out == SearchProductsBatch(Queries(productos_imagen), ans)
          IN /\ answer' = ans
             /\ IF out.raised
                THEN pc' = "except" /\ UNCHANGED search_results
                ELSE pc' = "searched" /\ search_results' = out.results
    /\ UNCHANGED << productos_imagen, validaciones, reactions, said, ex_vars, cmp, fn, msg_vars, adm_vars >>

\* validate_products, lines 77-121.
Validate ==
    /\ pc = "searched"
    /\ validaciones' = ValidateLoop(productos_imagen, search_results)
    /\ pc' = "validated"
    /\ UNCHANGED << productos_imagen, answer, search_results, reactions, said,
                    ex_vars, cmp, fn, msg_vars, adm_vars >>

\* Lines 236-251: the terminal reaction, then the results; say may raise.
SendResults ==
    /\ pc = "validated"
    /\ reactions' = reactions \o << Remove("eyes"), Add("white_check_mark") >>
    /\ \E ok \in BOOLEAN :
          IF ok
          THEN said' = Append(said, FormatResultsForSlack(validaciones)) /\ pc' = "done"
          ELSE said' = said /\ pc' = "except"
    /\ UNCHANGED << productos_imagen, answer, search_results, validaciones,
                    ex_vars, cmp, fn, msg_vars, adm_vars >>

\* Lines 253-257: the except block; its own say may raise, which
\* _process_message catches.
HandleException ==
    /\ pc = "except"
    /\ reactions' = reactions \o << Remove("eyes"), Add("x") >>
    /\ \E ok \in BOOLEAN :
          said' = IF ok THEN Append(said, Msg("error", << >>)) ELSE said
    /\ pc' = "done"
    /\ UNCHANGED << productos_imagen, answer, search_results, validaciones,
                    ex_vars, cmp, fn, msg_vars, adm_vars >>

ExIdle ==
    /\ text = << >>
    /\ ex_pc = "off"
    /\ ex_in = << >>
    /\ ex_data = << >>
    /\ ex_trace = << >>
    /\ extracted = << >>
    /\ products = << >>

\* A call: the function, whether it has returned, its argument, its result, and
\* the result of applying it to its own result where that is defined.
FnCall(name, called, arg, out, again) ==
    [name |-> name, called |-> called, arg |-> arg, out |-> out, again |-> again]

FnIdle == fn = FnCall("none", FALSE, << >>, << >>, << >>)

CmpIdle == cmp = [called |-> FALSE, precio_imagen |-> None, precio_sistema |-> None,
                  validacion |-> "", diferencia |-> None, status |-> ""]

ValIdle ==
    /\ pc = "idle"
    /\ productos_imagen = << >>
    /\ answer = << >>
    /\ search_results = << >>
    /\ validaciones = << >>
    /\ reactions = << >>
    /\ said = << >>

MsgIdle ==
    /\ allowed_users = {}
    /\ processing_messages = {}
    /\ runs = << >>
    /\ effects = {}
    /\ last = [ts |-> "", outcome |-> "none"]

AdmIdle ==
    /\ file_ids = {}
    /\ file_registry = << >>
    /\ index = << >>
    /\ objects = {}
    /\ response = [op |-> "none", file_id |-> 0, status |-> 0]

Init == ValIdle /\ ExIdle /\ CmpIdle /\ FnIdle /\ MsgIdle /\ AdmIdle

Next ==
    \/ AnalyzeImage
    \/ SearchBatch
    \/ Validate
    \/ SendResults
    \/ HandleException

Spec == Init /\ [][Next]_vars

-----------------------------------------------------------------------------
(* _compare_prices on its own: specification SpecPrices *)

ComparedPrices ==
    { None, Some(0), Some(1), Some(100), Some(9500), Some(9499), Some(10000),
      Some(10500), Some(10501), Some(-100), Some(-105) }

ComparePricesCall ==
    /\ ~cmp.called
    /\ \E a \in ComparedPrices, b \in ComparedPrices :
          LET r == ComparePrices(a, b)
          IN cmp' = [called |-> TRUE, precio_imagen |-> a, precio_sistema |-> b,
                     validacion |-> r.validacion, diferencia |-> r.diferencia,
                     status |-> r.status]
    /\ UNCHANGED << val_vars, ex_vars, fn, msg_vars, adm_vars >>

NextPrices == ComparePricesCall

SpecPrices == Init /\ [][NextPrices]_vars

-----------------------------------------------------------------------------
(* JSON: the values json.loads returns and the text it reads.              *)
(* A value is a record of one shape: k is its kind, n the number (in       *)
(* hundredths), s the string, items the elements of a list or the values   *)
(* of a dict, keys the keys of a dict.  A text is a sequence of tokens:    *)
(* the five punctuation characters, a key with its colon, a scalar, or    *)
(* "cut", a string or literal the text ends in the middle of.              *)

JV(k, n, s, items, keys) == [k |-> k, n |-> n, s |-> s, items |-> items, keys |-> keys]
JNull == JV("null", 0, << >>, << >>, << >>)
JNum(n) == JV("num", n, << >>, << >>, << >>)
JStr(s) == JV("str", 0, s, << >>, << >>)
JList(items) == JV("list", 0, << >>, items, << >>)
JDict(keys, items) == JV("dict", 0, << >>, items, keys)

Tok(t, k, s, n) == [t |-> t, k |-> k, s |-> s, n |-> n]
P(c) == Tok(c, "", << >>, 0)
TKey(k) == Tok("key", k, << >>, 0)
TStr(s) == Tok("str", "", s, 0)
TNum(n) == Tok("num", "", << >>, n)
TNull == Tok("null", "", << >>, 0)
TCut == Tok("cut", "", << >>, 0)

RECURSIVE Render(_)
RECURSIVE RenderItems(_, _)
RECURSIVE RenderMembers(_, _)
\* The JSON text of a value (json.dumps without whitespace).
Render(v) ==
    CASE v.k = "null" -> << TNull >>
      [] v.k = "num" -> << TNum(v.n) >>
      [] v.k = "str" -> << TStr(v.s) >>
      [] v.k = "list" -> << P("[") >> \o RenderItems(v, 1) \o << P("]") >>
      [] v.k = "dict" -> << P("{") >> \o RenderMembers(v, 1) \o << P("}") >>

RenderItems(v, i) ==
    IF i > Len(v.items) THEN << >>
    ELSE (IF i > 1 THEN << P(",") >> ELSE << >>)
         \o Render(v.items[i]) \o RenderItems(v, i + 1)

RenderMembers(v, i) ==
    IF i > Len(v.items) THEN << >>
    ELSE (IF i > 1 THEN << P(",") >> ELSE << >>)
         \o << TKey(v.keys[i]) >> \o Render(v.items[i]) \o RenderMembers(v, i + 1)

ParseFail == [ok |-> FALSE, v |-> JNull, i |-> 0]
ParseOk(v, i) == [ok |-> TRUE, v |-> v, i |-> i]

RECURSIVE ParseValue(_, _)
RECURSIVE ParseList(_, _, _)
RECURSIVE ParseDict(_, _, _, _)
\* json.loads, one value starting at token i; i of the result is the token
\* after it.
ParseValue(t, i) ==
    IF i > Len(t) THEN ParseFail
    ELSE CASE t[i].t = "null" -> ParseOk(JNull, i + 1)
           [] t[i].t = "num" -> ParseOk(JNum(t[i].n), i + 1)
           [] t[i].t = "str" -> ParseOk(JStr(t[i].s), i + 1)
           [] t[i].t = "[" ->
                IF i + 1 <= Len(t) /\ t[i + 1].t = "]"
                THEN ParseOk(JList(<< >>), i + 2)
                ELSE ParseList(t, i + 1, << >>)
           [] t[i].t = "{" ->
                IF i + 1 <= Len(t) /\ t[i + 1].t = "}"
                THEN ParseOk(JDict(<< >>, << >>), i + 2)
                ELSE ParseDict(t, i + 1, << >>, << >>)
           [] OTHER -> ParseFail

\* The elements of a list from token i on: a value, then "," and more, or "]".
ParseList(t, i, acc) ==
    LET r == ParseValue(t, i)
    IN IF ~r.ok \/ r.i > Len(t) THEN ParseFail
       ELSE IF t[r.i].t = "]" THEN ParseOk(JList(Append(acc, r.v)), r.i + 1)
       ELSE IF t[r.i].t = "," THEN ParseList(t, r.i + 1, Append(acc, r.v))
       ELSE ParseFail

\* The members of a dict from token i on: a key and its value, then "," and
\* more, or "}".
ParseDict(t, i, ks, vs) ==
    IF i > Len(t) \/ t[i].t # "key" THEN ParseFail
    ELSE LET r == ParseValue(t, i + 1)
         IN IF ~r.ok \/ r.i > Len(t) THEN ParseFail
            ELSE IF t[r.i].t = "}"
                 THEN ParseOk(JDict(Append(ks, t[i].k), Append(vs, r.v)), r.i + 1)
            ELSE IF t[r.i].t = ","
                 THEN ParseDict(t, r.i + 1, Append(ks, t[i].k), Append(vs, r.v))
            ELSE ParseFail

\* json.loads(text): one value and nothing after it, else JSONDecodeError.
JsonLoads(t) ==
    LET r == ParseValue(t, 1)
    IN IF r.ok /\ r.i = Len(t) + 1 THEN r ELSE ParseFail

\* key in d, d.get(key, default): the last member of that key counts.
Has(d, key) == \E i \in 1..Len(d.keys) : d.keys[i] = key

Get(d, key, default) ==
    IF Has(d, key)
    THEN d.items[CHOOSE i \in 1..Len(d.keys) :
                    d.keys[i] = key /\ \A j \in (i + 1)..Len(d.keys) : d.keys[j] # key]
    ELSE default

\* bool(v)
Truthy(v) ==
    CASE v.k = "null" -> FALSE
      [] v.k = "num" -> v.n # 0
      [] v.k = "str" -> v.s # << >>
      [] v.k = "list" -> v.items # << >>
      [] v.k = "dict" -> v.keys # << >>

DigitChars == << "0","1","2","3","4","5","6","7","8","9" >>

IsDigit(c) == \E i \in 1..10 : DigitChars[i] = c

DigitVal(c) == (CHOOSE i \in 1..10 : DigitChars[i] = c) - 1

RECURSIVE NatDigits(_)
NatDigits(n) ==
    IF n < 10 THEN << DigitChars[n + 1] >>
    ELSE Append(NatDigits(n \div 10), DigitChars[(n % 10) + 1])

\* str(v) of a number held in hundredths: 1.5 is "1.5", 1.0 is "1.0".
NumStr(n) ==
    (IF n < 0 THEN << "-" >> ELSE << >>) \o NatDigits(Abs(n) \div 100) \o << "." >>
    \o (IF Abs(n) % 10 = 0 THEN << DigitChars[((Abs(n) % 100) \div 10) + 1] >>
        ELSE << DigitChars[((Abs(n) % 100) \div 10) + 1], DigitChars[(Abs(n) % 10) + 1] >>)

\* str(v)
StrOf(v) ==
    CASE v.k = "str" -> v.s
      [] v.k = "null" -> << "N","o","n","e" >>
      [] v.k = "num" -> NumStr(v.n)
      [] v.k = "list" -> << "[", "]" >>
      [] v.k = "dict" -> << "{", "}" >>

-----------------------------------------------------------------------------
(* VisionService._parse_price *)

STR_NO_VISIBLE == << "N","o"," ","v","i","s","i","b","l","e" >>
STR_null == << "n","u","l","l" >>
STR_GENERAL == << "G","e","n","e","r","a","l" >>

\* re.sub(r'[^\d.]', '', price)
RECURSIVE KeepDigitsAndDots(_)
KeepDigitsAndDots(s) ==
    IF s = << >> THEN << >>
    ELSE (IF IsDigit(Head(s)) \/ Head(s) = "." THEN << Head(s) >> ELSE << >>)
         \o KeepDigitsAndDots(Tail(s))

RECURSIVE DigitsValue(_, _)
DigitsValue(s, acc) ==
    IF s = << >> THEN acc ELSE DigitsValue(Tail(s), acc * 10 + DigitVal(Head(s)))

\* float(cleaned) for a string of digits and dots, in hundredths (further
\* decimals dropped); ValueError unless it has a digit and at most one dot.
FloatOf(cleaned) ==
    LET dots == { i \in 1..Len(cleaned) : cleaned[i] = "." }
    IN IF Cardinality(dots) > 1 \/ Cardinality(dots) = Len(cleaned) THEN None
       ELSE IF dots = {} THEN Some(DigitsValue(cleaned, 0) * 100)
       ELSE LET d == CHOOSE i \in dots : TRUE
                whole == SubSeq(cleaned, 1, d - 1)
                frac == SubSeq(cleaned, d + 1, Len(cleaned))
                f1 == IF Len(frac) >= 1 THEN DigitVal(frac[1]) ELSE 0
                f2 == IF Len(frac) >= 2 THEN DigitVal(frac[2]) ELSE 0
            IN Some(DigitsValue(whole, 0) * 100 + f1 * 10 + f2)

\* A coercion that reports 0 where there is no price.
ParsePriceZeroDefault(price) ==
    IF price.k = "num" THEN Some(price.n)
    ELSE IF price.k = "str" /\ KeepDigitsAndDots(price.s) # << >>
            /\ FloatOf(KeepDigitsAndDots(price.s)).some
         THEN FloatOf(KeepDigitsAndDots(price.s))
    ELSE Some(0)

ParsePrice(price) ==
    IF price.k = "null" THEN None
    ELSE IF price.k = "str" /\ (price.s = STR_NO_VISIBLE \/ price.s = STR_null) THEN None
    ELSE IF price.k = "num" THEN Some(price.n)
    ELSE IF price.k = "str"
         THEN LET cleaned == KeepDigitsAndDots(price.s)
              IN IF cleaned = << >> THEN None ELSE FloatOf(cleaned)
    ELSE None

-----------------------------------------------------------------------------
(* VisionService._parse_gemini_response: flattening, lines 244-277 *)

Producto(nombre, precio, categoria) ==
    [nombre |-> nombre, precio |-> precio, categoria |-> categoria]

\* What "for producto in productos" iterates over: the elements of a list,
\* the characters of a str, the keys of a dict; TypeError for None or a number.
Iterable(v) == v.k \in {"list", "str", "dict"}

IterItems(v) ==
    CASE v.k = "list" -> v.items
      [] v.k = "str" -> [i \in 1..Len(v.s) |-> JStr(<< v.s[i] >>)]
      [] v.k = "dict" -> [i \in 1..Len(v.keys) |-> JStr(<< v.keys[i] >>)]
      [] OTHER -> << >>

\* The body of the inner loop: the records one producto contributes.
FlattenProducto(producto, categoria) ==
    IF producto.k # "dict" THEN << >>
    ELSE LET nombre == Strip(Upper(StrOf(Get(producto, "nombre", JStr(<< >>)))))
         IN IF nombre # << >> /\ nombre # STR_NULL
            THEN << Producto(nombre, ParsePrice(Get(producto, "precio", JNull)),
                             categoria) >>
            ELSE << >>

RECURSIVE FlattenProductos(_, _, _)
FlattenProductos(items, i, categoria) ==
    IF i > Len(items) THEN << >>
    ELSE FlattenProducto(items[i], categoria) \o FlattenProductos(items, i + 1, categoria)

\* productos of one seccion, after "if not productos and 'nombre' in seccion".
ProductosOf(seccion) ==
    LET productos == Get(seccion, "productos", JList(<< >>))
    IN IF ~Truthy(productos) /\ Has(seccion, "nombre")
       THEN JList(<< seccion >>) ELSE productos

SeccionRaises(seccion) == seccion.k = "dict" /\ ~Iterable(ProductosOf(seccion))

FlattenSeccion(seccion) ==
    IF seccion.k # "dict" THEN << >>
    ELSE FlattenProductos(IterItems(ProductosOf(seccion)), 1,
                          Get(seccion, "categoria", JStr(STR_GENERAL)))

RECURSIVE FlattenSecciones(_, _)
FlattenSecciones(secciones, i) ==
    IF i > Len(secciones) THEN << >>
    ELSE FlattenSeccion(secciones[i]) \o FlattenSecciones(secciones, i + 1)

FlattenFirstOnly(data) ==
    LET secciones == IF data.k # "list" THEN << data >> ELSE data.items
    IN [raised |-> FALSE,
        productos |-> IF secciones = << >> THEN << >>
                      ELSE FlattenSeccion(secciones[1])]

\* Lines 244-277: the outcome is the flat list, or the TypeError of the first
\* seccion whose productos cannot be iterated.
FlattenData(data) ==
    LET secciones == IF data.k # "list" THEN << data >> ELSE data.items
    IN IF \E i \in 1..Len(secciones) : SeccionRaises(secciones[i])
       THEN [raised |-> TRUE, productos |-> << >>]
       ELSE [raised |-> FALSE, productos |-> FlattenSecciones(secciones, 1)]

-----------------------------------------------------------------------------
(* VisionService._repair_truncated_json and _extract_products_regex *)

\* text.count(c)
Count(t, c) == Cardinality({ i \in 1..Len(t) : t[i].t = c })

\* c * n (the empty string when n <= 0)
Repeat(c, n) == [i \in 1..(IF n > 0 THEN n ELSE 0) |-> P(c)]

\* text.rstrip().rstrip(',')
RECURSIVE RStripCommas(_)
RStripCommas(t) ==
    IF t # << >> /\ t[Len(t)].t = "," THEN RStripCommas(SubSeq(t, 1, Len(t) - 1)) ELSE t

\* Lines 284-290: the closers are counted over the whole text, all the braces
\* appended before all the brackets.
Balance(t) ==
    RStripCommas(t) \o Repeat("}", Count(t, "{") - Count(t, "}"))
    \o Repeat("]", Count(t, "[") - Count(t, "]"))

\* text.rfind('},'): the token index of the last "}" that a "," follows, 0 when
\* there is none (rfind's -1) and also when it is the first character of the
\* text (rfind's 0), the two cases "if last_complete > 0" rejects.
LastComplete(t) ==
    LET found == { i \in 2..(Len(t) - 1) : t[i].t = "}" /\ t[i + 1].t = "," }
    IN IF found = {} THEN 0 ELSE CHOOSE i \in found : \A j \in found : j <= i

\* Lines 301-306: text[:last_complete + 1] and its closers.
Truncated(t) ==
    LET truncated == SubSeq(t, 1, LastComplete(t))
    IN truncated \o Repeat("}", Count(truncated, "{") - Count(truncated, "}"))
       \o Repeat("]", Count(truncated, "[") - Count(truncated, "]"))

\* The first token from j on that ends a match started before it: the key
\* "precio" followed by an unsigned number, no "}" in between; 0 when none.
RECURSIVE PrecioAfter(_, _)
PrecioAfter(t, j) ==
    IF j + 1 > Len(t) THEN 0
    ELSE IF t[j].t = "key" /\ t[j].k = "precio" /\ t[j + 1].t = "num" /\ t[j + 1].n >= 0
         THEN j
    ELSE IF t[j].t = "}" THEN 0
    ELSE PrecioAfter(t, j + 1)

\* re.findall of  "nombre"\s*:\s*"([^"]+)"[^}]*?"precio"\s*:\s*(\d+(?:\.\d+)?)
\* from token i on, each match giving one record (lines 329-337).
RECURSIVE ExtractProductsRegex(_, _)
ExtractProductsRegex(t, i) ==
    IF i + 1 > Len(t) THEN << >>
    ELSE IF t[i].t = "key" /\ t[i].k = "nombre" /\ t[i + 1].t = "str"
            /\ t[i + 1].s # << >> /\ PrecioAfter(t, i + 2) # 0
         THEN LET j == PrecioAfter(t, i + 2)
              IN << Producto(Strip(Upper(t[i + 1].s)), Some(t[j + 1].n),
                             JStr(STR_GENERAL)) >>
                 \o ExtractProductsRegex(t, j + 2)
    ELSE ExtractProductsRegex(t, i + 1)

-----------------------------------------------------------------------------
(* VisionService._deduplicate_products *)

NO_VISIBLE == << "N","O"," ","V","I","S","I","B","L","E" >>
NO_LEGIBLE == << "N","O"," ","L","E","G","I","B","L","E" >>

\* The tuple of line 361.
InvalidNames == { STR_NULL, STR_NONE, NO_VISIBLE, NO_LEGIBLE }

\* re.sub(r'\s+', ' ', s)
RECURSIVE CollapseSpaces(_)
CollapseSpaces(s) ==
    IF s = << >> THEN << >>
    ELSE IF IsSpace(Head(s))
         THEN IF Len(s) > 1 /\ IsSpace(s[2]) THEN CollapseSpaces(Tail(s))
              ELSE << " " >> \o CollapseSpaces(Tail(s))
    ELSE << Head(s) >> \o CollapseSpaces(Tail(s))

\* Line 358: nombre = p.get("nombre", "").upper().strip()
DedupNombre(p) == Strip(Upper(p.nombre))

\* Line 366: key = re.sub(r'\s+', ' ', nombre)
DedupKey(nombre) == CollapseSpaces(nombre)

\* A variant that appends the record under its key instead of the record as
\* given.
RECURSIVE DedupProductsRenamingFrom(_, _, _)
DedupProductsRenamingFrom(ps, i, seen) ==
    IF i > Len(ps) THEN << >>
    ELSE LET nombre == DedupNombre(ps[i])
             key == DedupKey(nombre)
         IN IF nombre = << >> \/ nombre \in InvalidNames \/ key \in seen
            THEN DedupProductsRenamingFrom(ps, i + 1, seen)
            ELSE << [ps[i] EXCEPT !.nombre = key] >>
                 \o DedupProductsRenamingFrom(ps, i + 1, seen \cup {key})

\* The loop of lines 357-370 from the i-th product on, seen being the keys
\* added so far.
RECURSIVE DedupProductsFrom(_, _, _)
DedupProductsFrom(ps, i, seen) ==
    IF i > Len(ps) THEN << >>
    ELSE LET nombre == DedupNombre(ps[i])
             key == DedupKey(nombre)
         IN IF nombre = << >> \/ nombre \in InvalidNames
            THEN DedupProductsFrom(ps, i + 1, seen)
            ELSE IF key \in seen
                 THEN DedupProductsFrom(ps, i + 1, seen)
                 ELSE << ps[i] >> \o DedupProductsFrom(ps, i + 1, seen \cup {key})

DeduplicateProducts(ps) == DedupProductsFrom(ps, 1, {})

-----------------------------------------------------------------------------
(* The texts _parse_gemini_response is given: specification SpecExtract.   *)
(* The model's reply follows the structure EXTRACTION_PROMPT asks for, a   *)
(* list of categories each holding a list of products, or departs from it, *)
(* or is that structure cut off where the output limit was reached.        *)

MaxEntries == 2
MaxCutProducts == 2

Prod(nombre, precio) == JDict(<< "nombre", "precio" >>, << nombre, precio >>)

Cat(categoria, entries) ==
    JDict(<< "categoria", "productos" >>, << JStr(<< categoria >>), JList(entries) >>)

ProdX == Prod(JStr(<< "x" >>), JNum(100))
ProdYNoPrice == Prod(JStr(<< " ", "y", " " >>), JNull)
ProdW == Prod(JStr(<< "w" >>), JNum(200))

Entries ==
    { ProdX, ProdYNoPrice,
      Prod(JStr(STR_null), JNum(100)),
      Prod(JStr(<< "N","o","n","e" >>), JNum(100)),
      Prod(JStr(<< >>), JNum(100)),
      Prod(JStr(<< " " >>), JNum(100)),
      Prod(JStr(<< "a", " ", " ", "b" >>), JNum(100)),
      Prod(JStr(<< "v" >>), JNum(-100)),
      Prod(JStr(<< "z" >>), JStr(<< "$", "1", ".", "5", "0" >>)),
      Prod(JNull, JNum(100)),
      JDict(<< "precio" >>, << JNum(100) >>),
      JNum(500) }

EntryLists == SeqsUpTo(Entries, MaxEntries)

\* Sections that are not a category with a list of products.
OddSections ==
    { JDict(<< "categoria", "productos" >>, << JStr(<< "A" >>), v >>) :
        v \in { JNull, JNum(500), JNum(0), JStr(<< "a", "b" >>), JStr(<< >>), ProdX } }
    \cup { JDict(<< "nombre", "productos" >>, << JStr(<< "x" >>), v >>) :
             v \in { JNull, JNum(500), JList(<< >>) } }
    \cup { JDict(<< >>, << >>), JList(<< ProdX >>), JNull, JNum(500), JStr(<< "x" >>) }

WholeValues ==
    { JList(<< Cat("A", es) >>) : es \in EntryLists }
    \cup { JList(<< Cat("A", es), Cat("B", << ProdW >>) >>) : es \in EntryLists }
    \cup { JList(<< e >>) : e \in Entries } \cup Entries
    \cup { JList(<< s >>) : s \in OddSections } \cup OddSections
    \cup { JList(<< Cat("B", << ProdW >>), s >>) : s \in OddSections }
    \cup { JList(<< >>) }

\* Where the text ends.  The first ten are inside a product record that
\* started after the complete ones; the others are between records.
InsideTails ==
    { "obj_open", "nombre_cutkey", "nombre_key", "nombre_cut", "nombre",
      "nombre_comma", "precio_cutkey", "precio_key", "precio_digits",
      "precio_cutnull" }

OutsideTails == { "product_end", "product_comma", "list_end", "cat_end", "cat_comma" }

TailTokens(tail) ==
    LET nombre == << P("{"), TKey("nombre"), TStr(<< "z" >>) >>
    IN CASE tail = "obj_open" -> << P("{") >>
         [] tail = "nombre_cutkey" -> << P("{"), TCut >>
         [] tail = "nombre_key" -> << P("{"), TKey("nombre") >>
         [] tail = "nombre_cut" -> << P("{"), TKey("nombre"), TCut >>
         [] tail = "nombre" -> nombre
         [] tail = "nombre_comma" -> nombre \o << P(",") >>
         [] tail = "precio_cutkey" -> nombre \o << P(","), TCut >>
         [] tail = "precio_key" -> nombre \o << P(","), TKey("precio") >>
         [] tail = "precio_digits" -> nombre \o << P(","), TKey("precio"), TNum(1200) >>
         [] tail = "precio_cutnull" -> nombre \o << P(","), TKey("precio"), TCut >>
         [] tail = "product_end" -> << >>
         [] tail = "product_comma" -> << P(",") >>
         [] tail = "list_end" -> << P("]") >>
         [] tail = "cat_end" -> << P("]"), P("}") >>
         [] tail = "cat_comma" -> << P("]"), P("}"), P(",") >>

\* The text of a list up to its last element, the closing "]" not yet written.
OpenList(items) == SubSeq(Render(JList(items)), 1, Len(Render(JList(items))) - 1)

\* The reply cut off: the complete categories cats, then category "B" with
\* the complete products prods, then the tail.
CutText(cats, prods, tail) ==
    OpenList(cats) \o (IF cats # << >> THEN << P(",") >> ELSE << >>)
    \o << P("{"), TKey("categoria"), TStr(<< "B" >>), P(","), TKey("productos") >>
    \o OpenList(prods)
    \o (IF prods # << >> /\ tail \in InsideTails THEN << P(",") >> ELSE << >>)
    \o TailTokens(tail)

ExtractInput(family, data, cats, prods, tail) ==
    [family |-> family, data |-> data, cats |-> cats, prods |-> prods, tail |-> tail]

ExtractInputs ==
    { ExtractInput("whole", v, << >>, << >>, "") : v \in WholeValues }
    \cup { ExtractInput("comma", v, << >>, << >>, "") :
             v \in { JNull, JList(<< Cat("A", << ProdX >>) >>) } }
    \cup { ExtractInput("cut", JNull, cats, prods, tail) :
             cats \in { << >>, << Cat("A", << ProdW >>) >> },
             prods \in SeqsUpTo({ ProdX, ProdYNoPrice }, MaxCutProducts),
             tail \in InsideTails \cup OutsideTails }

\* A whole value, a whole value followed by a comma, or a reply cut off.
TextOf(in) ==
    CASE in.family = "whole" -> Render(in.data)
      [] in.family = "comma" -> Render(in.data) \o << P(",") >>
      [] in.family = "cut" -> CutText(in.cats, in.prods, in.tail)

-----------------------------------------------------------------------------
(* VisionService._parse_gemini_response, one action per stage *)

\* Line 228: json.loads(text); a text that is the literal null leaves data
\* None and line 242 returns [].
DirectParse ==
    /\ ex_pc = "direct"
    /\ LET r == JsonLoads(text)
       IN /\ ex_pc' = IF ~r.ok THEN "balance"
                      ELSE IF r.v.k = "null" THEN "done" ELSE "flatten"
          /\ ex_data' = IF r.ok THEN r.v ELSE ex_data
    /\ ex_trace' = Append(ex_trace, "direct")
    /\ UNCHANGED << text, ex_in, extracted, products, val_vars, cmp, fn, msg_vars, adm_vars >>

\* A balance repair that gives up for the regex scan when its parse fails.
BalanceRepairThenRegex ==
    /\ ex_pc = "balance"
    /\ LET r == JsonLoads(Balance(text))
       IN /\ ex_pc' = IF ~r.ok \/ r.v.k = "null" THEN "regex" ELSE "flatten"
          /\ ex_data' = IF r.ok THEN r.v ELSE ex_data
    /\ ex_trace' = Append(ex_trace, "balance")
    /\ UNCHANGED << text, ex_in, extracted, products, val_vars, cmp, fn, msg_vars, adm_vars >>

\* Lines 284-295: close what the counts say is open and parse again.  A
\* repaired text that is the literal null makes _repair_truncated_json return
\* None, which line 235 takes for a failed repair.
BalanceRepair ==
    /\ ex_pc = "balance"
    /\ LET r == JsonLoads(Balance(text))
       IN /\ ex_pc' = IF ~r.ok THEN "truncate"
                      ELSE IF r.v.k = "null" THEN "regex" ELSE "flatten"
          /\ ex_data' = IF r.ok THEN r.v ELSE ex_data
    /\ ex_trace' = Append(ex_trace, "balance")
    /\ UNCHANGED << text, ex_in, extracted, products, val_vars, cmp, fn, msg_vars, adm_vars >>

\* Lines 296-315.
TruncationRepair ==
    /\ ex_pc = "truncate"
    /\ LET r == IF LastComplete(text) > 0 THEN JsonLoads(Truncated(text)) ELSE ParseFail
       IN /\ ex_pc' = IF ~r.ok \/ r.v.k = "null" THEN "regex" ELSE "flatten"
          /\ ex_data' = IF r.ok THEN r.v ELSE ex_data
    /\ ex_trace' = Append(ex_trace, "truncate")
    /\ UNCHANGED << text, ex_in, extracted, products, val_vars, cmp, fn, msg_vars, adm_vars >>

\* Line 238.
RegexScan ==
    /\ ex_pc = "regex"
    /\ extracted' = ExtractProductsRegex(text, 1)
    /\ ex_pc' = "done"
    /\ ex_trace' = Append(ex_trace, "regex")
    /\ UNCHANGED << text, ex_in, ex_data, products, val_vars, cmp, fn, msg_vars, adm_vars >>

\* Lines 244-277; "raised" is the TypeError leaving the function.
Flatten ==
    /\ ex_pc = "flatten"
    /\ LET f == FlattenData(ex_data)
       IN /\ ex_pc' = IF f.raised THEN "raised" ELSE "done"
          /\ extracted' = f.productos
    /\ ex_trace' = Append(ex_trace, "flatten")
    /\ UNCHANGED << text, ex_in, ex_data, products, val_vars, cmp, fn, msg_vars, adm_vars >>

\* analyze_shelf_image, lines 137-140: the list _parse_gemini_response returned
\* goes through _deduplicate_products and is what the caller gets.
Deduplicate ==
    /\ ex_pc = "done"
    /\ products' = DeduplicateProducts(extracted)
    /\ ex_pc' = "deduped"
    /\ UNCHANGED << text, ex_in, ex_data, ex_trace, extracted, val_vars, cmp, fn, msg_vars, adm_vars >>

InitExtract ==
    /\ ValIdle
    /\ AdmIdle
    /\ MsgIdle
    /\ CmpIdle
    /\ FnIdle
    /\ \E in \in ExtractInputs :
         /\ ex_in = in
         /\ text = TextOf(in)
    /\ ex_pc = "direct"
    /\ ex_data = JNull
    /\ ex_trace = << >>
    /\ extracted = << >>
    /\ products = << >>

NextExtract ==
    \/ DirectParse
    \/ BalanceRepair
    \/ TruncationRepair
    \/ RegexScan
    \/ Flatten
    \/ Deduplicate

SpecExtract == InitExtract /\ [][NextExtract]_vars

-----------------------------------------------------------------------------
(* Claims about validate_products *)

\* The capability's answer to the query issued for the i-th product.
AnswerFor(i) == answer[Queries(productos_imagen)[i]]

AnyQueryFailed == \E q \in DOMAIN answer : answer[q].fail

\* a / b <= c / d for d > 0 and b # 0, over the rationals.
RatioLeq(a, b, c, d) == IF b > 0 THEN a * d <= c * b ELSE a * d >= c * b

\* Agreement within tolerance as the specification words it.
WithinTolerance(source_price, matched_price) ==
    \/ matched_price = 0 /\ source_price = 0
    \/ /\ matched_price # 0
       /\ RatioLeq(Abs(source_price - matched_price), matched_price,
                   PRICE_TOLERANCE_PERCENT, 100)

\* C1: the status of every ValidationResult is fixed by four facts: NOT_FOUND
\* iff the search returned no candidate for the product, NO_PRICE iff a
\* candidate exists and a price is absent, MATCH iff a candidate exists, both
\* prices are present and agree within tolerance, PRICE_DIFF iff they are
\* present and do not agree.
C1_StatusDeterminedByFacts ==
    pc = "validated" =>
        \A i \in DOMAIN validaciones :
            LET r == validaciones[i]
                candidate == AnswerFor(i).hits # << >>
                src == productos_imagen[i].precio.some
                mat == r.precio_sistema.some
                agree == WithinTolerance(r.precio_imagen.v, r.precio_sistema.v)
            IN /\ r.status \in {"NOT_FOUND", "NO_PRICE", "MATCH", "PRICE_DIFF"}
               /\ r.status = "NOT_FOUND" <=> ~candidate
               /\ r.status = "NO_PRICE" <=> (candidate /\ (~src \/ ~mat))
               /\ r.status = "MATCH" <=> (candidate /\ src /\ mat /\ agree)
               /\ r.status = "PRICE_DIFF" <=> (candidate /\ src /\ mat /\ ~agree)

\* C2: validate_products returns one ValidationResult per input product, in
\* input order: the i-th result carries the i-th product's name (the
\* placeholder DESCONOCIDO when the product has none) and price, also when
\* two products have the same name.
C2_OneResultPerProduct ==
    pc = "validated" =>
        /\ Len(validaciones) = Len(productos_imagen)
        /\ \A i \in 1..Len(productos_imagen) :
              /\ validaciones[i].producto_imagen =
                    (IF productos_imagen[i].has_nombre
                     THEN productos_imagen[i].nombre ELSE DESCONOCIDO)
              /\ validaciones[i].precio_imagen = productos_imagen[i].precio

\* C2's case: two products of one batch carry no name, hence the same
\* placeholder, and both got their own result.
C2_Witness ==
    /\ pc = "validated"
    /\ Len(productos_imagen) = 2
    /\ ~productos_imagen[1].has_nombre
    /\ ~productos_imagen[2].has_nombre
    /\ productos_imagen[1].precio # productos_imagen[2].precio
    /\ Len(validaciones) = 2

\* C3: with both prices present, _compare_prices answers MATCH iff
\* (matched = 0 and source = 0) or (matched # 0 and |source - matched| /
\* matched <= 5%), PRICE_DIFF otherwise; 100/105 is MATCH, 100/105.01 is
\* PRICE_DIFF, 0/0 is MATCH, 0/1 is PRICE_DIFF.
C3_ToleranceBoundary ==
    (cmp.called /\ cmp.precio_imagen.some /\ cmp.precio_sistema.some) =>
        LET s == cmp.precio_imagen.v
            m == cmp.precio_sistema.v
        IN /\ cmp.status \in {"MATCH", "PRICE_DIFF"}
           /\ cmp.status = "MATCH" <=> WithinTolerance(s, m)
           /\ (m = 10000 /\ s = 10500) => cmp.status = "MATCH"
           /\ (m = 10000 /\ s = 10501) => cmp.status = "PRICE_DIFF"
           /\ (m = 0 /\ s = 0) => cmp.status = "MATCH"
           /\ (m = 0 /\ s = 100) => cmp.status = "PRICE_DIFF"

\* C3's case: the comparison ran on the pair exactly at the boundary.
C3_Witness ==
    /\ cmp.called
    /\ cmp.precio_sistema = Some(10000)
    /\ cmp.precio_imagen = Some(10500)
    /\ cmp.status = "MATCH"

\* C4: for each product with at least one returned candidate, the candidate
\* used is the one with the highest similarity score among those returned for
\* it, in whatever order they were returned; among those that tie on the top
\* score, the first in the returned order.
C4_BestIsHighest ==
    pc = "validated" =>
        \A i \in DOMAIN validaciones :
            (productos_imagen[i].has_nombre /\ AnswerFor(i).hits # << >>) =>
                LET hits == AnswerFor(i).hits
                    top == CHOOSE j \in 1..Len(hits) :
                              /\ \A k \in 1..Len(hits) : hits[k].score <= hits[j].score
                              /\ \A k \in 1..(j - 1) : hits[k].score < hits[j].score
                IN /\ validaciones[i].match_score = Some(hits[top].score)
                   /\ validaciones[i].producto_sistema.v = hits[top].nombre

\* C5: if the search capability fails for one query of a batch,
\* validate_products still returns a result for every product: NOT_FOUND for
\* the products whose query failed, the verdict of their own candidates for
\* the others.
C5_PartialResults ==
    (pc \in {"except", "done"} /\ AnyQueryFailed) =>
        /\ Len(validaciones) = Len(productos_imagen)
        /\ \A i \in DOMAIN validaciones :
              AnswerFor(i).fail => validaciones[i].status = "NOT_FOUND"

\* C6: a search-capability error is never reported as a genuine NOT_FOUND: no
\* ValidationResult exists for a product whose query failed, and the handler
\* then sends no results table and no white_check_mark, but the x reaction
\* (and the error message when say succeeds).
C6_ErrorNotReportedAsNotFound ==
    /\ \A i \in DOMAIN validaciones : ~AnswerFor(i).fail
    /\ AnyQueryFailed =>
          /\ \A k \in DOMAIN said :
                said[k].kind \notin {"results", "no_valid_products", "no_products"}
          /\ \A k \in DOMAIN reactions : reactions[k] # Add("white_check_mark")
          /\ pc = "done" =>
                /\ \E k \in DOMAIN reactions : reactions[k] = Add("x")
                /\ \A k \in DOMAIN said :
                      k > 2 => said[k].kind = "error"

\* C6's case: a query of the batch failed and the handler has reported it.
C6_Witness ==
    /\ pc = "done"
    /\ AnyQueryFailed
    /\ \E q \in DOMAIN answer : ~answer[q].fail /\ answer[q].hits = << >>
    /\ said[Len(said)].kind = "error"

-----------------------------------------------------------------------------
(* Claims about _parse_gemini_response *)

Returned == ex_pc \in { "done", "raised" }

\* C7: extraction never raises: for every input text, valid JSON of an
\* unexpected shape included, _parse_gemini_response terminates and returns a
\* list.
C7_NeverRaises == ex_pc # "raised"

NamePrice(productos) ==
    [i \in 1..Len(productos) |->
        [nombre |-> productos[i].nombre, precio |-> productos[i].precio]]

\* The records of the products that are complete in a cut text: those of the
\* complete categories, then those of the open category.
CompleteBeforeCut(in) ==
    FlattenSecciones(in.cats, 1) \o FlattenProductos(in.prods, 1, JStr(<< "B" >>))

\* C8: for a category->products array cut inside a product record, extraction
\* does not raise and returns, by name and price, every product record that was
\* complete before the cut, those whose price is null included, and nothing of
\* the incomplete one.
C8_CompleteRecordsRecovered ==
    (Returned /\ ex_in.family = "cut" /\ ex_in.tail \in InsideTails)
        => /\ ex_pc = "done"
           /\ NamePrice(extracted) = NamePrice(CompleteBeforeCut(ex_in))

\* C9: no record extraction returns has, after upper-casing and trimming, an
\* empty name or the name "NULL" or "NONE", whichever stage produced it.
C9_NoSentinelNames ==
    ex_pc = "done"
        => \A i \in 1..Len(extracted) :
              Strip(Upper(extracted[i].nombre)) \notin { << >>, STR_NULL, STR_NONE }

\* The expected schema: a list of sections (or one section), each a category
\* with a name and a list of entries, or an entry with a name and no list; an
\* entry is an object whose name, if any, is a string and whose price, if any,
\* is a number or null.
IsEntry(e) ==
    /\ e.k = "dict"
    /\ Has(e, "nombre") => Get(e, "nombre", JNull).k = "str"
    /\ Has(e, "precio") => Get(e, "precio", JNull).k \in { "num", "null" }

IsCategory(s) ==
    /\ s.k = "dict"
    /\ ~Has(s, "nombre")
    /\ Has(s, "categoria") /\ Get(s, "categoria", JNull).k = "str"
    /\ Has(s, "productos") /\ Get(s, "productos", JNull).k = "list"
    /\ \A i \in 1..Len(Get(s, "productos", JNull).items) :
          IsEntry(Get(s, "productos", JNull).items[i])

IsDirectProduct(s) == IsEntry(s) /\ Has(s, "nombre") /\ ~Has(s, "productos")

SeccionesOf(data) == IF data.k = "list" THEN data.items ELSE << data >>

InSchema(data) ==
    \A i \in 1..Len(SeccionesOf(data)) :
       IsCategory(SeccionesOf(data)[i]) \/ IsDirectProduct(SeccionesOf(data)[i])

EntriesOf(s) == IF Has(s, "productos") THEN Get(s, "productos", JNull).items ELSE << s >>

NameOf(e) == Strip(Upper(Get(e, "nombre", JStr(<< >>)).s))

RecordOf(e, s) ==
    Producto(NameOf(e),
             IF Get(e, "precio", JNull).k = "num" THEN Some(Get(e, "precio", JNull).n)
             ELSE None,
             Get(s, "categoria", JStr(STR_GENERAL)))

\* The entries of section s that have a name, none of the sentinels, in order.
ExpectedOfSeccion(s, sentinels) ==
    LET Named(e) == NameOf(e) # << >> /\ NameOf(e) \notin sentinels
        kept == SelectSeq(EntriesOf(s), Named)
    IN [i \in 1..Len(kept) |-> RecordOf(kept[i], s)]

RECURSIVE ExpectedFrom(_, _, _)
ExpectedFrom(secciones, i, sentinels) ==
    IF i > Len(secciones) THEN << >>
    ELSE ExpectedOfSeccion(secciones[i], sentinels)
         \o ExpectedFrom(secciones, i + 1, sentinels)

InSchemaReturned == Returned /\ ex_in.family = "whole" /\ InSchema(ex_in.data)

\* C10, as stated: for valid JSON in the expected schema extraction returns
\* exactly, in document order, every entry that has a non-empty name (each
\* category's entries, and a named object without a list as one product).
C10_ExactlyTheNamedEntries ==
    InSchemaReturned
        => ex_pc = "done" /\ extracted = ExpectedFrom(SeccionesOf(ex_in.data), 1, {})

\* C10, amended: for valid JSON in the expected schema extraction returns
\* exactly, in document order, every entry whose upper-cased, trimmed name is
\* non-empty and is not "NULL".
C10_ExactlyTheNamedNonNullEntries ==
    InSchemaReturned
        => ex_pc = "done"
           /\ extracted = ExpectedFrom(SeccionesOf(ex_in.data), 1, { STR_NULL })

\* Two categories, the first with an entry named "null" and one that is kept,
\* flattened to the kept entry and the product of the second category.
C10_Witness ==
    /\ InSchemaReturned
    /\ Len(SeccionesOf(ex_in.data)) = 2
    /\ \E i \in 1..Len(EntriesOf(SeccionesOf(ex_in.data)[1])) :
          NameOf(EntriesOf(SeccionesOf(ex_in.data)[1])[i]) = STR_NULL
    /\ Len(extracted) = 2
    /\ extracted[1].categoria # extracted[2].categoria

-----------------------------------------------------------------------------
(* _deduplicate_products on its own: specification SpecDedup *)

MaxDedupLen == 3

DedupNames ==
    { << "A", " ", "B" >>, << "A", " ", " ", "B" >>, << "a", " ", "b", " " >>,
      << "C" >>, STR_NULL, << "n", "o", "n", "e" >>, << >>, << " " >>,
      NO_VISIBLE, << "N","O"," "," ","V","I","S","I","B","L","E" >>, NO_LEGIBLE }

\* Records as _parse_gemini_response makes them; the second price tells two
\* records of one name apart.
DedupRecords ==
    { Producto(n, Some(100), JStr(<< "A" >>)) : n \in DedupNames }
    \cup { Producto(<< "A", " ", "B" >>, Some(200), JStr(<< "A" >>)) }

DedupInputs == SeqsUpTo(DedupRecords, MaxDedupLen)

DeduplicateProductsCall ==
    /\ fn.name = "_deduplicate_products"
    /\ ~fn.called
    /\ fn' = [fn EXCEPT !.called = TRUE,
                        !.out = DeduplicateProducts(fn.arg),
                        !.again = DeduplicateProducts(DeduplicateProducts(fn.arg))]
    /\ UNCHANGED << val_vars, ex_vars, cmp, msg_vars, adm_vars >>

InitDedup ==
    /\ ValIdle
    /\ AdmIdle
    /\ MsgIdle
    /\ ExIdle
    /\ CmpIdle
    /\ \E X \in DedupInputs : fn = FnCall("_deduplicate_products", FALSE, X, << >>, << >>)

NextDedup == DeduplicateProductsCall

SpecDedup == InitDedup /\ [][NextDedup]_vars

-----------------------------------------------------------------------------
(* Claims about _deduplicate_products *)

Deduplicated == fn.name = "_deduplicate_products" /\ fn.called

\* Canonical name: upper-cased, trimmed, whitespace runs collapsed.
Canon(nombre) == CollapseSpaces(Strip(Upper(nombre)))

\* C11: deduplication is idempotent: deduplicating the output of
\* _deduplicate_products gives that output again.
C11_Idempotent == Deduplicated => fn.again = fn.out

\* Three records, one a duplicate or invalid, reduced to two.
C11_Witness ==
    /\ Deduplicated
    /\ Len(fn.arg) = 3
    /\ Len(fn.out) = 2
    /\ fn.again = fn.out

\* out is arg with some positions left out, the order kept.
IsSubsequence(out, arg) ==
    \E f \in [1..Len(out) -> 1..Len(arg)] :
       /\ \A j \in 1..Len(out) : out[j] = arg[f[j]]
       /\ \A j \in 1..(Len(out) - 1) : f[j] < f[j + 1]

FirstWithCanon(arg, c) ==
    arg[CHOOSE i \in 1..Len(arg) :
           /\ Canon(arg[i].nombre) = c
           /\ \A j \in 1..(i - 1) : Canon(arg[j].nombre) # c]

\* C12: the output of _deduplicate_products is a subsequence of its input, no
\* two of its records have the same canonical name, and the record kept for a
\* canonical name is the first input record with that name.
C12_FirstOccurrenceSubsequence ==
    Deduplicated =>
        /\ Len(fn.out) <= Len(fn.arg)
        /\ IsSubsequence(fn.out, fn.arg)
        /\ \A i, j \in 1..Len(fn.out) :
              i # j => Canon(fn.out[i].nombre) # Canon(fn.out[j].nombre)
        /\ \A j \in 1..Len(fn.out) :
              fn.out[j] = FirstWithCanon(fn.arg, Canon(fn.out[j].nombre))

\* C13: _deduplicate_products drops every record whose canonical name is empty
\* or one of NULL, NONE, NO VISIBLE, NO LEGIBLE, so none is in its output.
C13_SentinelsDropped ==
    Deduplicated =>
        \A j \in 1..Len(fn.out) :
           Canon(fn.out[j].nombre) \notin ({ << >> } \cup InvalidNames)

\* C14: every record of the list handed to validation has a non-empty name in
\* canonical form: upper-case, trimmed, no run of whitespace.
C14_NamesCanonical ==
    ex_pc = "deduped" =>
        \A i \in 1..Len(products) :
           /\ products[i].nombre # << >>
           /\ products[i].nombre = Canon(products[i].nombre)

-----------------------------------------------------------------------------
(* _parse_price on its own: specification SpecParsePrice *)

MaxPriceLen == 2

PriceChars == { "$", "0", "1", ".", "a", "-", " " }

\* What producto.get("precio") can be: None, a number, a string, another value.
PriceInputs ==
    { JNull, JNum(0), JNum(100), JNum(2550), JNum(-100), JList(<< >>),
      JDict(<< >>, << >>),
      JStr(STR_null), JStr(STR_NO_VISIBLE), JStr(<< "a", "b", "c" >>),
      JStr(<< "1", ".", "2", ".", "3" >>), JStr(<< "$", "1", ".", "5", "0" >>),
      JStr(<< "$", "0", ".", "0", "0" >>) }
    \cup { JStr(str) : str \in SeqsUpTo(PriceChars, MaxPriceLen) }

ParsePriceCall ==
    /\ fn.name = "_parse_price"
    /\ ~fn.called
    /\ fn' = [fn EXCEPT !.called = TRUE, !.out = ParsePrice(fn.arg)]
    /\ UNCHANGED << val_vars, ex_vars, cmp, msg_vars, adm_vars >>

InitParsePrice ==
    /\ ValIdle
    /\ AdmIdle
    /\ MsgIdle
    /\ ExIdle
    /\ CmpIdle
    /\ \E price \in PriceInputs : fn = FnCall("_parse_price", FALSE, price, None, None)

NextParsePrice == ParsePriceCall

SpecParsePrice == InitParsePrice /\ [][NextParsePrice]_vars

-----------------------------------------------------------------------------
(* Claims about prices of extracted products *)

PriceParsed == fn.name = "_parse_price" /\ fn.called

DigitsIn(str) == { i \in 1..Len(str) : IsDigit(str[i]) }

DotsIn(str) == { i \in 1..Len(str) : str[i] = "." }

\* No price can be read: nothing, a placeholder, a string without digits or
\* with more than one decimal point, a value that is no number and no string.
Unparseable(price) ==
    \/ price.k \in { "null", "list", "dict" }
    \/ /\ price.k = "str"
       /\ \/ price.s \in { STR_null, STR_NO_VISIBLE }
          \/ DigitsIn(price.s) = {}
          \/ Cardinality(DotsIn(price.s)) > 1

\* The price reported is zero: the number 0, or a string all of whose digits
\* are 0.
NumericallyZero(price) ==
    \/ price.k = "num" /\ price.n = 0
    \/ /\ price.k = "str"
       /\ DigitsIn(price.s) # {}
       /\ \A i \in DigitsIn(price.s) : price.s[i] = "0"

C16_PricesNotNegative ==
    ex_pc = "done" =>
        \A i \in 1..Len(extracted) :
           extracted[i].precio.some => extracted[i].precio.v >= 0

-----------------------------------------------------------------------------
(* Regular expressions, as re.search and re.sub evaluate them: a pattern is  *)
(* a sequence of nodes, matched by backtracking in priority order.  A node  *)
(* is a character class with a greedy repetition, a group of alternatives  *)
(* (each a sequence of class nodes) that may be optional, \b, or ^.         *)

Inf == 99

DigitSet == { "0","1","2","3","4","5","6","7","8","9" }

SpaceSet == { " ", "\t", "\n" }

LetterSet ==
    { LowerLetters[i] : i \in 1..Len(LowerLetters) }
    \cup { UpperLetters[i] : i \in 1..Len(UpperLetters) }

\* \w
WordSet == LetterSet \cup DigitSet \cup { "_" }

Cls(chars, min, max) ==
    [kind |-> "cls", chars |-> chars, min |-> min, max |-> max, alts |-> << >>]

Grp(alts, optional) ==
    [kind |-> "grp", chars |-> {}, min |-> IF optional THEN 0 ELSE 1, max |-> 1,
     alts |-> alts]

WordBoundary == [kind |-> "wb", chars |-> {}, min |-> 0, max |-> 0, alts |-> << >>]

LineStart == [kind |-> "bol", chars |-> {}, min |-> 0, max |-> 0, alts |-> << >>]

\* The characters of a literal, one node each.
Lit(str) == [i \in 1..Len(str) |-> Cls({ str[i] }, 1, 1)]

\* \s+ and \s*
Spaces1 == << Cls(SpaceSet, 1, Inf) >>
Spaces0 == << Cls(SpaceSet, 0, Inf) >>

\* Whether character c is in the class; under re.IGNORECASE the patterns, all
\* written in lower case, also match the upper-case letter.
InClass(c, chars, ic) == c \in chars \/ (ic /\ LowerChar(c) \in chars)

\* \b at position pos: exactly one of the characters before and at pos is a
\* word character.
AtWordBoundary(t, pos) ==
    (pos > 1 /\ t[pos - 1] \in WordSet) # (pos <= Len(t) /\ t[pos] \in WordSet)

\* How many characters from pos on are in the class, up to max.
RECURSIVE RunLength(_, _, _, _, _)
RunLength(t, pos, chars, ic, max) ==
    IF max = 0 \/ pos > Len(t) \/ ~InClass(t[pos], chars, ic) THEN 0
    ELSE 1 + RunLength(t, pos + 1, chars, ic, max - 1)

RECURSIVE MatchAt(_, _, _, _)
RECURSIVE TryCounts(_, _, _, _, _, _)
RECURSIVE TryAlts(_, _, _, _, _, _)
\* The position after the match of nodes that starts at pos, 0 when there is
\* none.
MatchAt(nodes, t, pos, ic) ==
    IF nodes = << >> THEN pos
    ELSE LET n == Head(nodes)
         IN CASE n.kind = "cls" ->
                   TryCounts(Tail(nodes), t, pos, ic,
                             RunLength(t, pos, n.chars, ic, n.max), n.min)
              [] n.kind = "grp" -> TryAlts(n, 1, Tail(nodes), t, pos, ic)
              [] n.kind = "wb" ->
                   IF AtWordBoundary(t, pos) THEN MatchAt(Tail(nodes), t, pos, ic) ELSE 0
              [] n.kind = "bol" ->
                   IF pos = 1 THEN MatchAt(Tail(nodes), t, pos, ic) ELSE 0

\* Greedy repetition: k characters, then fewer, down to min.
TryCounts(rest, t, pos, ic, k, min) ==
    IF k < min THEN 0
    ELSE LET r == MatchAt(rest, t, pos + k, ic)
         IN IF r # 0 THEN r ELSE TryCounts(rest, t, pos, ic, k - 1, min)

\* The alternatives in the order written, then, for an optional group, none.
TryAlts(n, i, rest, t, pos, ic) ==
    IF i > Len(n.alts)
    THEN IF n.min = 0 THEN MatchAt(rest, t, pos, ic) ELSE 0
    ELSE LET r == MatchAt(n.alts[i] \o rest, t, pos, ic)
         IN IF r # 0 THEN r ELSE TryAlts(n, i + 1, rest, t, pos, ic)

NoMatch == [found |-> FALSE, start |-> 0, end |-> 0]

\* re.search from position from on: the leftmost match, [start, end).
RECURSIVE Search(_, _, _, _)
Search(nodes, t, from, ic) ==
    IF from > Len(t) + 1 THEN NoMatch
    ELSE IF MatchAt(nodes, t, from, ic) # 0
         THEN [found |-> TRUE, start |-> from, end |-> MatchAt(nodes, t, from, ic)]
    ELSE Search(nodes, t, from + 1, ic)

\* re.sub(pattern, repl, t), for patterns that match no empty string.
RECURSIVE SubFrom(_, _, _, _, _)
SubFrom(nodes, repl, t, from, ic) ==
    LET m == Search(nodes, t, from, ic)
    IN IF ~m.found \/ m.end = m.start THEN SubSeq(t, from, Len(t))
       ELSE SubSeq(t, from, m.start - 1) \o repl \o SubFrom(nodes, repl, t, m.end, ic)

Sub(nodes, repl, t, ic) == SubFrom(nodes, repl, t, 1, ic)

\* The digits a match ends with: group 1 of the store patterns.
RECURSIVE TrailingDigits(_)
TrailingDigits(str) ==
    IF str # << >> /\ str[Len(str)] \in DigitSet
    THEN Append(TrailingDigits(SubSeq(str, 1, Len(str) - 1)), str[Len(str)])
    ELSE << >>

-----------------------------------------------------------------------------
(* SlackHandler._extract_tienda_id *)

W_TIENDA == << "t","i","e","n","d","a" >>
W_STORE == << "s","t","o","r","e" >>
W_SUCURSAL == << "s","u","c","u","r","s","a","l" >>

\* keyword\s*[#:]?\s*(\d+)
KeywordPattern(keyword) ==
    Lit(keyword) \o Spaces0 \o << Cls({ "#", ":" }, 0, 1) >> \o Spaces0
    \o << Cls(DigitSet, 1, Inf) >>

\* The list patterns of lines 382-388, in its order.
StorePatterns ==
    << KeywordPattern(W_TIENDA),
       KeywordPattern(W_STORE),
       KeywordPattern(W_SUCURSAL),
       Lit(<< "#" >>) \o << Cls(DigitSet, 3, 4), WordBoundary >>,
       << WordBoundary, Cls(DigitSet, 3, 4), WordBoundary >> >>

\* int(match.group(1)) of the match m in t.
MatchedId(t, m) == DigitsValue(TrailingDigits(SubSeq(t, m.start, m.end - 1)), 0)

\* The loop of lines 390-396 from the i-th pattern on: re.search gives the
\* leftmost match of the pattern, and a value out of range passes to the next
\* pattern.
RECURSIVE ExtractTiendaIdFrom(_, _)
ExtractTiendaIdFrom(text_lower, i) ==
    IF i > Len(StorePatterns) THEN None
    ELSE LET m == Search(StorePatterns[i], text_lower, 1, FALSE)
         IN IF m.found /\ MatchedId(text_lower, m) \in 1..9999
            THEN Some(MatchedId(text_lower, m))
            ELSE ExtractTiendaIdFrom(text_lower, i + 1)

ExtractTiendaId(t) == IF t = << >> THEN None ELSE ExtractTiendaIdFrom(Lower(t), 1)

-----------------------------------------------------------------------------
(* SlackHandler._is_greeting_or_help *)

Greetings ==
    { << "h","o","l","a" >>,
      << "h","e","l","l","o" >>,
      << "h","i" >>,
      << "h","e","y" >>,
      << "b","u","e","n","o","s"," ","d","í","a","s" >>,
      << "b","u","e","n","a","s"," ","t","a","r","d","e","s" >>,
      << "b","u","e","n","a","s"," ","n","o","c","h","e","s" >>,
      << "a","y","u","d","a" >>,
      << "h","e","l","p" >>,
      << "q","u","é"," ","p","u","e","d","e","s" >>,
      << "q","u","e"," ","p","u","e","d","e","s" >>,
      << "p","a","r","a"," ","q","u","é"," ","s","i","r","v","e","s" >>,
      << "p","a","r","a"," ","q","u","e"," ","s","i","r","v","e","s" >>,
      << "q","u","é"," ","h","a","c","e","s" >>,
      << "q","u","e"," ","h","a","c","e","s" >>,
      << "c","ó","m","o"," ","f","u","n","c","i","o","n","a" >>,
      << "c","o","m","o"," ","f","u","n","c","i","o","n","a" >> }

\* g in t
Contains(t, g) == \E i \in 1..(Len(t) - Len(g) + 1) : SubSeq(t, i, i + Len(g) - 1) = g

\* The classification without its first test.
IsGreetingOrHelpWordsOnly(t) ==
    \/ Strip(t) = << "?" >>
    \/ \E g \in Greetings : Contains(Lower(t), g)

IsGreetingOrHelp(t) ==
    IF ExtractTiendaId(t).some THEN FALSE
    ELSE \/ Strip(t) = << "?" >>
         \/ \E g \in Greetings : Contains(Lower(t), g)

-----------------------------------------------------------------------------
(* SlackHandler._extract_search_term *)

AsciiUpperSet == { UpperLetters[i] : i \in 1..26 }

\* <@[A-Z0-9]+>
MentionPattern ==
    Lit(<< "<","@" >>) \o << Cls(AsciiUpperSet \cup DigitSet, 1, Inf) >> \o Lit(<< ">" >>)

\* (de\s+la\s+)?keyword\s*[#:]?\s*\d+
StoreReference(keyword) ==
    << Grp(<< Lit(<< "d","e" >>) \o Spaces1 \o Lit(<< "l","a" >>) \o Spaces1 >>, TRUE) >>
    \o KeywordPattern(keyword)

\* #\d+
HashNumber == Lit(<< "#" >>) \o << Cls(DigitSet, 1, Inf) >>

\* (la|el|los|las)? and (el|la|los|las)?
ArtLa == << Grp(<< Lit(<< "l","a" >>), Lit(<< "e","l" >>), Lit(<< "l","o","s" >>), Lit(<< "l","a","s" >>) >>, TRUE) >>
ArtEl == << Grp(<< Lit(<< "e","l" >>), Lit(<< "l","a" >>), Lit(<< "l","o","s" >>), Lit(<< "l","a","s" >>) >>, TRUE) >>

\* (el\s+)?
OptEl == << Grp(<< Lit(<< "e","l" >>) \o Spaces1 >>, TRUE) >>

\* precio\s+de\s+(la|el|los|las)?\s*
PrecioDe == Lit(<< "p","r","e","c","i","o" >>) \o Spaces1 \o Lit(<< "d","e" >>) \o Spaces1 \o ArtLa \o Spaces0

\* tr[aá]eme, cu[aá]l, busca(r)?
Traeme == Lit(<< "t","r" >>) \o << Cls({ "a", "á" }, 1, 1) >> \o Lit(<< "e","m","e" >>)
Cual == Lit(<< "c","u" >>) \o << Cls({ "a", "á" }, 1, 1) >> \o Lit(<< "l" >>)
Buscar == Lit(<< "b","u","s","c","a" >>) \o << Grp(<< Lit(<< "r" >>) >>, TRUE) >>

\* The list frases_remover of lines 418-434, in its order.
FrasesRemover ==
    << Traeme \o Spaces1 \o Lit(<< "e","l" >>) \o Spaces1 \o PrecioDe,
       Cual \o Spaces1 \o Lit(<< "e","s" >>) \o Spaces1 \o Lit(<< "e","l" >>) \o Spaces1 \o PrecioDe,
       Lit(<< "d","a","m","e" >>) \o Spaces1 \o Lit(<< "e","l" >>) \o Spaces1 \o PrecioDe,
       Lit(<< "q","u","i","e","r","o" >>) \o Spaces1 \o << Grp(<< Lit(<< "s","a","b","e","r" >>) \o Spaces1 >>, TRUE) >> \o OptEl
          \o PrecioDe,
       Lit(<< "c","o","n","s","u","l","t","a" >>) \o Spaces1 \o OptEl \o PrecioDe,
       Buscar \o Spaces1 \o OptEl \o PrecioDe,
       PrecioDe,
       Traeme \o Spaces1 \o ArtEl \o Spaces0,
       Cual \o Spaces1 \o Lit(<< "e","s" >>) \o Spaces1 \o << Grp(<< Lit(<< "e","l" >>), Lit(<< "l","a" >>) >>, TRUE) >>
          \o Spaces0,
       Lit(<< "d","a","m","e" >>) \o Spaces1 \o ArtEl \o Spaces0,
       Buscar \o Spaces0,
       Lit(<< "p","r","e","c","i","o" >>) \o Spaces1 \o Lit(<< "d","e" >>) \o << Grp(<< Lit(<< "l" >>) >>, TRUE) >> \o Spaces0,
       << WordBoundary >> \o Lit(<< "p","r","e","c","i","o" >>) \o << WordBoundary >>,
       << WordBoundary >> \o Lit(<< "c","u","a","n","t","o" >>) \o Spaces1 \o Lit(<< "c","u","e","s","t","a" >>) \o << WordBoundary >>,
       << WordBoundary >> \o Lit(<< "c","u","á","n","t","o" >>) \o Spaces1 \o Lit(<< "c","u","e","s","t","a" >>) \o << WordBoundary >> >>

\* ^(el|la|los|las|de|del)\s+
LeadingArticle ==
    << LineStart, Grp(<< Lit(<< "e","l" >>), Lit(<< "l","a" >>), Lit(<< "l","o","s" >>), Lit(<< "l","a","s" >>), Lit(<< "d","e" >>), Lit(<< "d","e","l" >>) >>, FALSE) >>
    \o Spaces1

\* The loop of lines 436-437 from the i-th phrase on.
RECURSIVE RemoveFrases(_, _)
RemoveFrases(cleaned, i) ==
    IF i > Len(FrasesRemover) \/ cleaned = << >> THEN cleaned
    ELSE LET next == Sub(FrasesRemover[i], << >>, cleaned, TRUE)
         IN IF next = << >> THEN << >> ELSE RemoveFrases(next, i + 1)

\* Lines 408-414: the mention and the store references removed.
WithoutReferences(t) ==
    Sub(HashNumber, << >>,
        Sub(StoreReference(W_SUCURSAL), << >>,
            Sub(StoreReference(W_STORE), << >>,
                Sub(StoreReference(W_TIENDA), << >>,
                    Sub(MentionPattern, << >>, t, FALSE), TRUE), TRUE), TRUE), FALSE)

\* Lines 439-446: whitespace collapsed and trimmed, a leading article removed.
Tidy(cleaned) ==
    Strip(Sub(LeadingArticle, << >>, Strip(Sub(Spaces1, << " " >>, cleaned, FALSE)), TRUE))

ExtractSearchTerm(t) ==
    IF t = << >> THEN NoneStr
    ELSE IF Len(Tidy(RemoveFrases(WithoutReferences(t), 1))) > 2
         THEN [some |-> TRUE, v |-> Tidy(RemoveFrases(WithoutReferences(t), 1))]
    ELSE NoneStr

-----------------------------------------------------------------------------
(* SlackHandler._handle_text_query: specification SpecIntent *)

MaxFragments == 2

TextFragments ==
    { << "t","i","e","n","d","a"," ","0" >>,
      << "t","i","e","n","d","a"," ","5" >>,
      << "t","i","e","n","d","a"," ","8","1","0" >>,
      << "t","i","e","n","d","a"," ","1","2","3","4","5" >>,
      << "s","t","o","r","e"," ","7" >>,
      << "#","8","1","0" >>,
      << "8","1","0" >>,
      << "h","o","l","a" >>,
      << "a","y","u","d","a" >>,
      << "h","a","r","i","n","a" >>,
      << "p","r","e","c","i","o"," ","d","e"," ","l","a","s" >>,
      << "?" >> }

SENTENCE_HARINA ==
    << "¿","C","u","á","l"," ","e","s"," ","e","l"," ","p","r","e","c","i","o"," ","d","e"," ","l","a"," ","H","a","r","i","n","a"," ","e","n"," ","l","a"," ","t","i","e","n","d","a"," ","1","0","0","?" >>

RECURSIVE Join(_)
Join(fragments) ==
    IF fragments = << >> THEN << >>
    ELSE IF Len(fragments) = 1 THEN fragments[1]
    ELSE fragments[1] \o << " " >> \o Join(Tail(fragments))

\* The texts of the messages: fragments separated by one space, and two
\* whole sentences.
Texts ==
    { Join(fs) : fs \in SeqsUpTo(TextFragments, MaxFragments) }
    \cup { SENTENCE_HARINA, << "T","r","á","e","m","e"," ","e","l"," ","p","r","e","c","i","o"," ","d","e"," ","h","a","r","i","n","a"," ","d","e"," ","l","a"," ","t","i","e","n","d","a"," ","8","1","0" >> }

React(op, name) == [op |-> op, name |-> name]

TextReply(said_, reactions_, query, tienda_id) ==
    [said |-> said_, reactions |-> reactions_, query |-> query, tienda_id |-> tienda_id]

Silent == TextReply(<< >>, << >>, NoneStr, None)

\* Lines 274-337: what the handler says, the reactions it requests, and the
\* query and store it searches with (if it searches), the search ending as
\* outcome says.
HandleTextQueryOutcome(t, outcome) ==
    IF t = << >> \/ Len(Strip(t)) < 3 THEN Silent
    ELSE IF IsGreetingOrHelp(t)
         THEN TextReply(<< "help" >>,
                        << React("add", "eyes"), React("remove", "eyes"),
                           React("add", "white_check_mark") >>, NoneStr, None)
    ELSE LET tienda_id == ExtractTiendaId(t)
             search_term == ExtractSearchTerm(t)
         IN IF ~search_term.some \/ Len(search_term.v) < 3 THEN Silent
            ELSE IF ~tienda_id.some
                 THEN TextReply(<< "need_store" >>,
                                << React("add", "eyes"), React("remove", "eyes"),
                                   React("add", "x") >>, NoneStr, None)
            ELSE TextReply(
                   << CASE outcome = "matches" -> "results"
                        [] outcome = "empty" -> "not_found"
                        [] outcome = "fail" -> "error" >>,
                   << React("add", "eyes"), React("remove", "eyes"),
                      React("add", IF outcome = "matches" THEN "white_check_mark"
                                   ELSE "x") >>,
                   [some |-> TRUE, v |-> Upper(search_term.v)], tienda_id)

HandleTextQuery ==
    /\ fn.name = "_handle_text_query"
    /\ ~fn.called
    /\ \E outcome \in { "matches", "empty", "fail" } :
          fn' = [fn EXCEPT !.called = TRUE, !.out = HandleTextQueryOutcome(fn.arg, outcome)]
    /\ UNCHANGED << val_vars, ex_vars, cmp, msg_vars, adm_vars >>

ExtractTiendaIdCall ==
    /\ fn.name = "_extract_tienda_id"
    /\ ~fn.called
    /\ fn' = [fn EXCEPT !.called = TRUE, !.out = ExtractTiendaId(fn.arg)]
    /\ UNCHANGED << val_vars, ex_vars, cmp, msg_vars, adm_vars >>

IsGreetingOrHelpCall ==
    /\ fn.name = "_is_greeting_or_help"
    /\ ~fn.called
    /\ fn' = [fn EXCEPT !.called = TRUE, !.out = IsGreetingOrHelp(fn.arg)]
    /\ UNCHANGED << val_vars, ex_vars, cmp, msg_vars, adm_vars >>

InitIntent ==
    /\ ValIdle
    /\ AdmIdle
    /\ MsgIdle
    /\ ExIdle
    /\ CmpIdle
    /\ \E t \in Texts :
          \/ fn = FnCall("_handle_text_query", FALSE, t, Silent, Silent)
          \/ fn = FnCall("_extract_tienda_id", FALSE, t, None, None)
          \/ fn = FnCall("_is_greeting_or_help", FALSE, t, FALSE, FALSE)

NextIntent ==
    \/ HandleTextQuery
    \/ ExtractTiendaIdCall
    \/ IsGreetingOrHelpCall

SpecIntent == InitIntent /\ [][NextIntent]_vars

-----------------------------------------------------------------------------
(* Claims about intent parsing *)

Called(name) == fn.name = name /\ fn.called

\* The value of the leftmost match with a value in [1, 9999] of the first
\* pattern, from the i-th on, that has such a match; None when none has.
RECURSIVE FirstInRange(_, _)
FirstInRange(text_lower, i) ==
    IF i > Len(StorePatterns) THEN None
    ELSE LET starts == { k \in 1..Len(text_lower) :
                           /\ MatchAt(StorePatterns[i], text_lower, k, FALSE) # 0
                           /\ MatchedId(text_lower,
                                  [start |-> k,
                                   end |-> MatchAt(StorePatterns[i], text_lower, k, FALSE)])
                                \in 1..9999 }
         IN IF starts # {}
            THEN LET k == CHOOSE x \in starts : \A y \in starts : x <= y
                 IN Some(MatchedId(text_lower,
                                   [start |-> k,
                                    end |-> MatchAt(StorePatterns[i], text_lower, k, FALSE)]))
            ELSE FirstInRange(text_lower, i + 1)


\* C17: store-id extraction returns the integer of the first match, in the
\* order of the patterns, whose value lies in [1, 9999]; it returns no store id
\* only when no pattern has a match with a value in that range; a returned id
\* is in [1, 9999].
C17_FirstMatchInRange ==
    Called("_extract_tienda_id") =>
        /\ fn.out = (IF fn.arg = << >> THEN None ELSE FirstInRange(Lower(fn.arg), 1))
        /\ fn.out.some => fn.out.v \in 1..9999

\* C18: a message from which a store id can be extracted is never classified
\* as greeting/help, and the text-query handler never answers it with the help
\* message.
C18_StoreIdOverridesGreeting ==
    /\ (Called("_is_greeting_or_help") /\ ExtractTiendaId(fn.arg).some) => fn.out = FALSE
    /\ (Called("_handle_text_query") /\ ExtractTiendaId(fn.arg).some)
          => \A i \in 1..Len(fn.out.said) : fn.out.said[i] # "help"

\* "tienda 810 ayuda" is searched, not answered with the help message.
C18_Witness ==
    /\ Called("_handle_text_query")
    /\ fn.arg = << "t","i","e","n","d","a"," ","8","1","0"," ","a","y","u","d","a" >>
    /\ fn.out.said = << "results" >>
    /\ fn.out.tienda_id = Some(810)

\* C19: for "¿Cuál es el precio de la Harina en la tienda 100?" intent parsing
\* yields store 100 and the search phrase HARINA.
C19_HarinaSentence ==
    (Called("_handle_text_query") /\ fn.arg = SENTENCE_HARINA) =>
        /\ fn.out.tienda_id = Some(100)
        /\ fn.out.query = [some |-> TRUE, v |-> << "H","A","R","I","N","A" >>]

-----------------------------------------------------------------------------
(* _deduplicate_results on its own: specification SpecResults *)

MaxResults == 3

\* Results as validate_products builds them: without a match, or with the
\* name of the matched catalog product.
ResultNotFound(nombre_imagen) == ValidateOne([has_nombre |-> TRUE, nombre |-> nombre_imagen, precio |-> Some(100)], << >>)

ResultMatch(nombre_imagen, nombre_sistema) ==
    [producto_imagen |-> nombre_imagen, precio_imagen |-> Some(100),
     producto_sistema |-> [some |-> TRUE, v |-> nombre_sistema],
     precio_sistema |-> Some(100),
     validacion |-> ComparePrices(Some(100), Some(100)).validacion,
     diferencia |-> ComparePrices(Some(100), Some(100)).diferencia,
     status |-> ComparePrices(Some(100), Some(100)).status,
     match_score |-> Some(95)]

SistemaNames ==
    { << "A"," ","B" >>, << "A"," "," ","B" >>, << "a"," ","b" >>, << "C" >>, STR_NULL, << >> }

ResultRecords ==
    { ResultNotFound(<< "X" >>), ResultNotFound(<< "Y" >>),
      ResultMatch(<< "Y" >>, << "A"," ","B" >>) }
    \cup { ResultMatch(<< "X" >>, n) : n \in SistemaNames }

ResultLists == SeqsUpTo(ResultRecords, MaxResults)

DeduplicateResultsCall ==
    /\ fn.name = "_deduplicate_results"
    /\ ~fn.called
    /\ fn' = [fn EXCEPT !.called = TRUE,
                        !.out = DeduplicateResults(fn.arg),
                        !.again = DeduplicateResults(DeduplicateResults(fn.arg))]
    /\ UNCHANGED << val_vars, ex_vars, cmp, msg_vars, adm_vars >>

InitResults ==
    /\ ValIdle
    /\ AdmIdle
    /\ MsgIdle
    /\ ExIdle
    /\ CmpIdle
    /\ \E vs \in ResultLists : fn = FnCall("_deduplicate_results", FALSE, vs, << >>, << >>)

NextResults == DeduplicateResultsCall

SpecResults == InitResults /\ [][NextResults]_vars

-----------------------------------------------------------------------------
(* Claims about _deduplicate_results *)

\* The display key: the matched name if there is one, otherwise the source
\* name, in canonical form.
DisplayKey(v) ==
    Canon(IF v.producto_sistema.some /\ v.producto_sistema.v # << >>
          THEN v.producto_sistema.v ELSE v.producto_imagen)

FirstWithKey(vs, key) ==
    vs[CHOOSE i \in 1..Len(vs) :
          /\ DisplayKey(vs[i]) = key
          /\ \A j \in 1..(i - 1) : DisplayKey(vs[j]) # key]

\* C20: _deduplicate_results keeps, for each display key, exactly the first
\* result with that key (none for an empty or sentinel key), keeps the order of
\* the kept results, and is idempotent.
C20_FirstPerDisplayKey ==
    Called("_deduplicate_results") =>
        /\ IsSubsequence(fn.out, fn.arg)
        /\ \A i, j \in 1..Len(fn.out) :
              i # j => DisplayKey(fn.out[i]) # DisplayKey(fn.out[j])
        /\ \A j \in 1..Len(fn.out) :
              fn.out[j] = FirstWithKey(fn.arg, DisplayKey(fn.out[j]))
        /\ \A i \in 1..Len(fn.arg) :
              DisplayKey(fn.arg[i]) \notin { << >>, STR_NULL, STR_NONE }
                 => \E j \in 1..Len(fn.out) : DisplayKey(fn.out[j]) = DisplayKey(fn.arg[i])
        /\ fn.again = fn.out

-----------------------------------------------------------------------------
(* handle_message, _process_message and _cleanup_message under concurrent   *)
(* deliveries: specification SpecMessages.  Coroutines run on one event     *)
(* loop, so the code between two awaits is one step.                        *)

MaxRuns == 2

\* asyncio.sleep(60) in _cleanup_message
CLEANUP_DELAY == 60

TimeSteps == { CLEANUP_DELAY \div 2, CLEANUP_DELAY }

Timestamps == { "1", "2" }

Users == { "U1", "U2" }

\* An event: bot_id and bot_profile are present or not, user is a user id or
\* absent (""), subtype is absent ("") or a subtype.
Event(ts, bot_id, bot_profile, subtype, user) ==
    [ts |-> ts, bot_id |-> bot_id, bot_profile |-> bot_profile,
     subtype |-> subtype, user |-> user]

\* Messages of users, and events that differ from one in a single field.
Events ==
    { Event(ts, FALSE, FALSE, subtype, user) :
         ts \in Timestamps, subtype \in { "", "file_share" }, user \in Users }
    \cup UNION { { Event(ts, TRUE, FALSE, "", "U1"),
                   Event(ts, FALSE, TRUE, "", "U1"),
                   Event(ts, FALSE, FALSE, "message_changed", "U1"),
                   Event(ts, FALSE, FALSE, "", "") } : ts \in Timestamps }

AllowLists == { {}, { "U1" } }

\* What a handler asks of the outside: a reply (say), a reaction, or a call of
\* the search or the vision service.
EffectKinds == { "reply", "reaction", "call" }

\* The checks without the one of the subtype.
HandleMessagePassesAnySubtype(event) ==
    /\ ~event.bot_id
    /\ ~event.bot_profile
    /\ event.user # ""

\* The checks of handle_message before it calls _process_message.
HandleMessagePasses(event) ==
    /\ ~event.bot_id
    /\ ~event.bot_profile
    /\ ~(event.subtype # "" /\ event.subtype # "file_share")
    /\ event.user # ""

UserAllowed(user) == allowed_users = {} \/ user \in allowed_users

\* The checks without the test of the in-flight set.
OutcomeNoDuplicateCheck(event) ==
    IF ~HandleMessagePasses(event) THEN "ignored"
    ELSE IF ~UserAllowed(event.user) THEN "not_allowed"
    ELSE "admitted"

\* What handle_message and the checks of _process_message make of an event.
Outcome(event) ==
    IF ~HandleMessagePasses(event) THEN "ignored"
    ELSE IF event.ts \in processing_messages THEN "duplicate"
    ELSE IF ~UserAllowed(event.user) THEN "not_allowed"
    ELSE "admitted"

\* A run of _process_message past its checks: message_ts, where it is, and
\* what is left of its cleanup task's sleep.
Run(message_ts) == [ts |-> message_ts, pc |-> "handling", sleep |-> 0]

\* handle_message up to the first await of _process_message: the checks, and
\* for an admitted event the add to the in-flight set.
HandleMessage(event) ==
    /\ Outcome(event) = "admitted" => Len(runs) < MaxRuns
    /\ last' = [ts |-> event.ts, outcome |-> Outcome(event)]
    /\ IF Outcome(event) = "admitted"
       THEN /\ processing_messages' = processing_messages \cup { event.ts }
            /\ runs' = Append(runs, Run(event.ts))
       ELSE UNCHANGED << processing_messages, runs >>
    /\ UNCHANGED << allowed_users, effects, val_vars, ex_vars, cmp, fn, adm_vars >>

\* One awaited call of the image or text handler.
HandlerStep(i) ==
    /\ runs[i].pc = "handling"
    /\ \E kind \in EffectKinds :
          effects' = effects \cup { [ts |-> runs[i].ts, kind |-> kind] }
    /\ UNCHANGED << allowed_users, processing_messages, runs, last,
                    val_vars, ex_vars, cmp, fn, adm_vars >>

\* The handler returned or raised, and no cleanup task is created on the
\* exception path.
EndRunNoFinally(i, how) ==
    /\ runs[i].pc = "handling"
    /\ runs' = [runs EXCEPT
                  ![i].pc = IF how = "normal" THEN "sleeping" ELSE "done",
                  ![i].sleep = IF how = "normal" THEN CLEANUP_DELAY ELSE 0]
    /\ effects' = IF how = "exception"
                  THEN effects \cup { [ts |-> runs[i].ts, kind |-> "reply"] }
                  ELSE effects
    /\ UNCHANGED << allowed_users, processing_messages, last,
                    val_vars, ex_vars, cmp, fn, adm_vars >>

\* The handler returned or raised: the except block says the error, and the
\* finally block creates the cleanup task, which starts its sleep.
EndRun(i, how) ==
    /\ runs[i].pc = "handling"
    /\ runs' = [runs EXCEPT ![i].pc = "sleeping", ![i].sleep = CLEANUP_DELAY]
    /\ effects' = IF how = "exception"
                  THEN effects \cup { [ts |-> runs[i].ts, kind |-> "reply"] }
                  ELSE effects
    /\ UNCHANGED << allowed_users, processing_messages, last,
                    val_vars, ex_vars, cmp, fn, adm_vars >>

\* _cleanup_message after its sleep.
CleanupMessage(i) ==
    /\ runs[i].pc = "sleeping"
    /\ runs[i].sleep = 0
    /\ processing_messages' = processing_messages \ { runs[i].ts }
    /\ runs' = [runs EXCEPT ![i].pc = "done"]
    /\ UNCHANGED << allowed_users, effects, last, val_vars, ex_vars, cmp, fn, adm_vars >>

Sleeping == { i \in 1..Len(runs) : runs[i].pc = "sleeping" }

\* Time passes, never beyond the end of a sleep.
Tick(d) ==
    /\ Sleeping # {}
    /\ \A i \in Sleeping : d <= runs[i].sleep
    /\ runs' = [i \in 1..Len(runs) |->
                  IF i \in Sleeping THEN [runs[i] EXCEPT !.sleep = @ - d] ELSE runs[i]]
    /\ UNCHANGED << allowed_users, processing_messages, effects, last,
                    val_vars, ex_vars, cmp, fn, adm_vars >>

InitMessages ==
    /\ ValIdle
    /\ AdmIdle
    /\ ExIdle
    /\ CmpIdle
    /\ FnIdle
    /\ allowed_users \in AllowLists
    /\ processing_messages = {}
    /\ runs = << >>
    /\ effects = {}
    /\ last = [ts |-> "", outcome |-> "none"]

NextMessages ==
    \/ \E event \in Events : HandleMessage(event)
    \/ \E i \in 1..Len(runs) : HandlerStep(i)
    \/ \E i \in 1..Len(runs), how \in { "normal", "exception" } : EndRun(i, how)
    \/ \E i \in 1..Len(runs) : CleanupMessage(i)
    \/ \E d \in TimeSteps : Tick(d)

SpecMessages == InitMessages /\ [][NextMessages]_vars

\* The event loop runs a task whose sleep is over, and its clock advances.
\* Nothing is assumed about how long a handler takes.
SpecMessagesFair ==
    /\ SpecMessages
    /\ WF_vars(\E i \in 1..Len(runs) : CleanupMessage(i))
    /\ WF_vars(\E d \in TimeSteps : Tick(d))

-----------------------------------------------------------------------------
(* Claims about the in-flight set *)

ActiveRuns(message_ts) ==
    { i \in 1..Len(runs) : runs[i].ts = message_ts /\ runs[i].pc = "handling" }

\* C21: a delivery (the only step that changes last) of an event whose ts is
\* in the in-flight set changes neither the set nor the runs nor what has been
\* asked of the external services, under every interleaving; and at most one
\* run per ts is active.
C21_DuplicateDeliverySuppressed ==
    /\ [][(last' # last /\ last'.ts \in processing_messages)
             => UNCHANGED << processing_messages, runs, effects >>]_vars
    /\ [](\A message_ts \in Timestamps : Cardinality(ActiveRuns(message_ts)) <= 1)

\* A duplicate was delivered while the first run of its ts was active beside a
\* run of another ts.
C21_Witness ==
    /\ last.outcome = "duplicate"
    /\ ActiveRuns(last.ts) # {}
    /\ \E i \in 1..Len(runs) : runs[i].ts # last.ts
    /\ effects # {}

Ended(i) == i <= Len(runs) /\ runs[i].pc # "handling"

\* The in-flight set holds exactly the ts of the runs that are active or whose
\* cleanup task has not run yet.
InFlightOwned ==
    processing_messages =
        { runs[i].ts : i \in { j \in 1..Len(runs) : runs[j].pc # "done" } }

\* C22: when a run ends, normally or with an exception, its cleanup task
\* starts a sleep of CLEANUP_DELAY seconds; a ts leaves the set only when such
\* a sleep is over, never while a run of it is active; every ts whose run has
\* ended is eventually removed; and the set is empty once no run is active or
\* waiting for its cleanup.
C22_InFlightEntriesExpire ==
    /\ [][\A i \in 1..Len(runs) :
             (runs[i].pc = "handling" /\ runs'[i].pc # "handling")
                => runs'[i].pc = "sleeping" /\ runs'[i].sleep = CLEANUP_DELAY]_vars
    /\ [][\A message_ts \in processing_messages \ processing_messages' :
             \E i \in 1..Len(runs) :
                /\ runs[i].ts = message_ts
                /\ runs[i].pc = "sleeping" /\ runs[i].sleep = 0
                /\ runs'[i].pc = "done"]_vars
    /\ [](\A message_ts \in Timestamps :
             ActiveRuns(message_ts) # {} => message_ts \in processing_messages)
    /\ [](InFlightOwned)
    /\ \A i \in 1..MaxRuns :
          (Ended(i) /\ runs[i].pc = "sleeping")
             ~> (Ended(i) /\ runs[i].pc = "done")

\* Two runs ended, one normally and one with an exception, their sleeps are
\* over and the set is empty again.
C22_Witness ==
    /\ Len(runs) = 2
    /\ \A i \in 1..Len(runs) : runs[i].pc = "done"
    /\ \E message_ts \in Timestamps : [ts |-> message_ts, kind |-> "reply"] \in effects
    /\ processing_messages = {}

\* The events the claim lets through: no bot_id, no bot_profile, a user, no
\* subtype or file_share, and a user of the allow-list if there is one.
Eligible(event) ==
    /\ event.bot_id = FALSE
    /\ event.bot_profile = FALSE
    /\ event.user \in Users
    /\ event.subtype \in { "", "file_share" }
    /\ (allowed_users # {} => event.user \in allowed_users)

\* C26: the delivery of an event that is not eligible leaves the in-flight
\* set, the runs and what has been asked of the external services as they
\* were; a run starts only with the delivery of an eligible event; and every
\* entry of the in-flight set and every effect belongs to a run.
C26_OnlyEligibleEventsAct ==
    /\ [][last' # last =>
             \A event \in Events :
                (~Eligible(event) /\ HandleMessage(event))
                   => UNCHANGED << processing_messages, runs, effects >>]_vars
    /\ [][Len(runs') > Len(runs) =>
             \E event \in Events : Eligible(event) /\ HandleMessage(event)]_vars
    /\ [](\A message_ts \in processing_messages \cup { x.ts : x \in effects } :
             \E i \in 1..Len(runs) : runs[i].ts = message_ts)

\* A user outside the allow-list was turned away while a run of an allowed
\* user had made calls.
C26_Witness ==
    /\ last.outcome = "not_allowed"
    /\ allowed_users # {}
    /\ effects # {}
    /\ \A x \in effects : x.ts # last.ts
    /\ last.ts \notin processing_messages

-----------------------------------------------------------------------------
(* Claims about the order of the fallback chain *)

ChainOrder == << "direct", "balance", "truncate", "regex" >>

StagesRun == SelectSeq(ex_trace, LAMBDA stage : stage # "flatten")

\* What each structural stage makes of the text, computed on its own.
StageResult(stage) ==
    CASE stage = "direct" -> JsonLoads(text)
      [] stage = "balance" -> JsonLoads(Balance(text))
      [] stage = "truncate" ->
            IF LastComplete(text) > 0 THEN JsonLoads(Truncated(text)) ELSE ParseFail

\* A stage fails when its parse fails or gives no data (the literal null).
Yields(stage) == StageResult(stage).ok /\ StageResult(stage).v.k # "null"

Position(stage) == CHOOSE k \in 1..Len(ChainOrder) : ChainOrder[k] = stage

FirstYielding ==
    { k \in 1..3 : Yields(ChainOrder[k]) /\ \A j \in 1..(k - 1) : ~Yields(ChainOrder[j]) }

\* C23: the stages run in the order direct parse, balance repair, truncation
\* repair, regex scan; a stage runs only if every earlier stage failed; and
\* the records returned are those of the first structural stage that gave
\* data, or those of the regex scan if none did.
C23_FallbackChainOrder ==
    /\ IsSubsequence(StagesRun, ChainOrder)
    /\ \A n \in 1..Len(StagesRun) :
          \A j \in 1..(Position(StagesRun[n]) - 1) : ~Yields(ChainOrder[j])
    /\ ex_pc \in { "done", "deduped" } =>
          \/ \E k \in FirstYielding :
                /\ extracted = FlattenData(StageResult(ChainOrder[k]).v).productos
                /\ \A n \in 1..Len(StagesRun) : Position(StagesRun[n]) <= k
          \/ FirstYielding = {} /\ extracted = ExtractProductsRegex(text, 1)

\* The truncation repair gave the records after the direct parse and the
\* balance repair had failed on a text the regex scan reads differently.
C23_Witness ==
    /\ ex_pc = "done"
    /\ ex_trace = << "direct", "balance", "truncate", "flatten" >>
    /\ extracted # << >>
    /\ extracted # ExtractProductsRegex(text, 1)

-----------------------------------------------------------------------------
(* Claims about the fields of a ValidationResult *)

\* C24: in every result of validate_products the matched name, the matched
\* price and the match score are all absent iff the status is NOT_FOUND (and
\* all present otherwise); the difference is present iff the status is MATCH
\* or PRICE_DIFF and is then matched price minus source price; and the verdict
\* is OK iff MATCH, MISMATCH iff PRICE_DIFF, UNKNOWN for NOT_FOUND and NO_PRICE.
C24_ResultFieldsAgree ==
    \A i \in 1..Len(validaciones) :
       LET v == validaciones[i]
       IN /\ (~v.producto_sistema.some /\ ~v.precio_sistema.some /\ ~v.match_score.some)
                <=> v.status = "NOT_FOUND"
          /\ v.status # "NOT_FOUND" =>
                v.producto_sistema.some /\ v.precio_sistema.some /\ v.match_score.some
          /\ v.diferencia.some <=> v.status \in { "MATCH", "PRICE_DIFF" }
          /\ v.diferencia.some =>
                v.diferencia.v = v.precio_sistema.v - v.precio_imagen.v
          /\ v.validacion = "OK" <=> v.status = "MATCH"
          /\ v.validacion = "MISMATCH" <=> v.status = "PRICE_DIFF"
          /\ v.status \in { "NOT_FOUND", "NO_PRICE" } => v.validacion = "UNKNOWN"
          /\ v.status \in { "NOT_FOUND", "NO_PRICE", "MATCH", "PRICE_DIFF" }

\* A run returned a result without a candidate and one with a price
\* difference that is not zero.
C24_Witness ==
    /\ \E i \in 1..Len(validaciones) : validaciones[i].status = "NOT_FOUND"
    /\ \E i \in 1..Len(validaciones) :
          /\ validaciones[i].status = "PRICE_DIFF"
          /\ validaciones[i].diferencia.v # 0

-----------------------------------------------------------------------------
(* Claims about hits without a catalog price *)

\* The hits the search capability answered for the name of product i, as
\* client.search returned them.
HitsFor(i) ==
    LET nombre_imagen == NombreImagen(productos_imagen[i])
    IN IF nombre_imagen \in DOMAIN search_results /\ nombre_imagen \in DOMAIN answer
       THEN answer[nombre_imagen].hits ELSE << >>

-----------------------------------------------------------------------------
(* Claims about the reaction protocol of _handle_image_analysis *)

TerminalReactions == { "white_check_mark", "warning", "x" }

TerminalRequests ==
    { i \in 1..Len(reactions) :
        reactions[i].op = "add" /\ reactions[i].name \in TerminalReactions }

\* C25: "eyes" is the first reaction requested, before anything is said or
\* analysed; and when the handling has ended, on every path, the removal of
\* "eyes" has been requested and exactly one terminal reaction has been
\* requested.
C25_ReactionProtocol ==
    /\ pc # "idle" => reactions # << >> /\ reactions[1] = Add("eyes")
    /\ pc = "done" =>
          /\ \E i \in 1..Len(reactions) : reactions[i] = Remove("eyes")
          /\ Cardinality(TerminalRequests) = 1

-----------------------------------------------------------------------------
(* Claims about the bracket-balance repair *)

\* The tails after which the text ends right after a complete value: a
\* string, a number, a product record, the list of products, a category.
CompleteValueTails == { "nombre", "precio_digits", "product_end", "list_end", "cat_end" }

Closer(open) == IF open = "[" THEN "]" ELSE "}"

\* Every closer of t from position i on matches the innermost open bracket,
\* stack being the brackets open before i, and nothing is left open.
RECURSIVE NestedFrom(_, _, _)
NestedFrom(t, i, stack) ==
    IF i > Len(t) THEN stack = << >>
    ELSE IF t[i].t \in { "[", "{" } THEN NestedFrom(t, i + 1, Append(stack, t[i].t))
    ELSE IF t[i].t \in { "]", "}" }
         THEN /\ stack # << >>
              /\ Closer(stack[Len(stack)]) = t[i].t
              /\ NestedFrom(t, i + 1, SubSeq(stack, 1, Len(stack) - 1))
    ELSE NestedFrom(t, i + 1, stack)

BalanceAttempted == \E n \in 1..Len(ex_trace) : ex_trace[n] = "balance"

\* C28: the balance repair of a reply cut off right after a complete value
\* has as many closing as opening brackets and braces, closes each with the
\* closer of the innermost open one, and parses.
C28_BalanceRepairNests ==
    (BalanceAttempted /\ ex_in.family = "cut" /\ ex_in.tail \in CompleteValueTails) =>
        LET repaired == Balance(text)
        IN /\ Count(repaired, "[") = Count(repaired, "]")
           /\ Count(repaired, "{") = Count(repaired, "}")
           /\ NestedFrom(repaired, 1, << >>)
           /\ JsonLoads(repaired).ok

-----------------------------------------------------------------------------
(* web-admin: upload_file and delete_file over the file registry, the       *)
(* vector index and the object store: specification SpecAdmin.  A request  *)
(* is one step; which of its calls fails is drawn with the request.         *)

MaxFiles == 2
MaxFileProducts == 2

FileIds == 1..MaxFiles

\* generate_file_id: an id that was not given out before.
GenerateFileId == CHOOSE id \in FileIds \ file_ids : \A other \in FileIds \ file_ids : id <= other

Response(op, file_id, status) == [op |-> op, file_id |-> file_id, status |-> status]

\* The calls of upload_file that may raise or fail.
UploadSteps == { "none", "process_file", "put_object", "embeddings", "upsert", "encrypt" }

\* upload_file: extracted products are read from the file, created of them
\* become points (a point whose price is no number is skipped), fail is the
\* call that fails, cleanup whether delete_folder in the except block removes
\* the object or meets an S3Error, which it swallows.
UploadFile ==
    /\ file_ids # FileIds
    /\ \E extracted_n \in 0..MaxFileProducts, fail \in UploadSteps,
          cleanup \in { "ok", "s3error" } :
       \E created \in 0..extracted_n :
          LET file_id == GenerateFileId
              stored == fail \notin { "process_file", "put_object" }
              indexed == IF fail \in { "process_file", "put_object", "embeddings", "upsert" }
                         THEN 0 ELSE created
              raised == fail \in { "process_file", "put_object", "embeddings", "encrypt" }
              registered == fail \in { "none", "upsert", "encrypt" }
          IN /\ fail = "embeddings" => extracted_n > 0
             /\ fail = "upsert" => created > 0
             /\ file_ids' = file_ids \cup { file_id }
             /\ index' = [id \in file_ids' |-> IF id = file_id THEN indexed ELSE index[id]]
             /\ objects' = IF stored /\ ~(raised /\ cleanup = "ok")
                           THEN objects \cup { file_id } ELSE objects
             /\ file_registry' =
                   IF registered
                   THEN [id \in DOMAIN file_registry \cup { file_id } |->
                           IF id = file_id THEN [products_count |-> indexed]
                           ELSE file_registry[id]]
                   ELSE file_registry
             /\ response' = Response("upload", file_id, IF raised THEN 500 ELSE 200)
    /\ UNCHANGED << val_vars, ex_vars, cmp, fn, msg_vars >>

\* upload_file without a filename or with an empty file: 400 before an id is
\* generated.
UploadRejected ==
    /\ response' = Response("upload", 0, 400)
    /\ UNCHANGED << file_ids, file_registry, index, objects,
                    val_vars, ex_vars, cmp, fn, msg_vars >>

\* delete_file: delete_by_file swallows a failure of client.delete and
\* returns 0; delete_folder swallows an S3Error and returns 0, any other
\* exception of the object store leaves delete_file as a 500; the registry
\* entry is deleted before the response is encrypted.
DeleteFile(file_id) ==
    \E index_ok \in BOOLEAN, store \in { "ok", "s3error", "raise" }, encrypt_ok \in BOOLEAN :
       IF file_id \notin DOMAIN file_registry
       THEN /\ response' = Response("delete", file_id, 404)
            /\ UNCHANGED << file_ids, file_registry, index, objects,
                            val_vars, ex_vars, cmp, fn, msg_vars >>
       ELSE /\ index' = IF index_ok THEN [index EXCEPT ![file_id] = 0] ELSE index
            /\ objects' = IF store = "ok" THEN objects \ { file_id } ELSE objects
            /\ file_registry' =
                  IF store = "raise" THEN file_registry
                  ELSE [id \in DOMAIN file_registry \ { file_id } |-> file_registry[id]]
            /\ response' = Response("delete", file_id,
                                    IF store = "raise" \/ ~encrypt_ok THEN 500 ELSE 200)
            /\ UNCHANGED << file_ids, val_vars, ex_vars, cmp, fn, msg_vars >>

InitAdmin ==
    /\ ValIdle
    /\ ExIdle
    /\ CmpIdle
    /\ FnIdle
    /\ MsgIdle
    /\ AdmIdle

NextAdmin ==
    \/ UploadFile
    \/ UploadRejected
    \/ \E file_id \in FileIds : DeleteFile(file_id)

SpecAdmin == InitAdmin /\ [][NextAdmin]_vars

-----------------------------------------------------------------------------
(* Claims about the web-admin file requests *)

\* C29: a delete that answers 200 and removes a file_id from the registry
\* leaves no indexed product and no stored object of that file_id, whatever
\* step against the index or the object store fails; a delete of a file_id
\* that is not in the registry answers 404 and changes neither the registry
\* nor the index nor the object store.
C29_DeleteLeavesNothingBehind ==
    /\ [][(/\ response'.op = "delete"
           /\ response'.status = 200
           /\ response'.file_id \in DOMAIN file_registry
           /\ response'.file_id \notin DOMAIN file_registry')
             => /\ index'[response'.file_id] = 0
                /\ response'.file_id \notin objects']_vars
    /\ [][(/\ response'.op = "delete"
           /\ response'.file_id \notin DOMAIN file_registry)
             => /\ response'.status = 404
                /\ UNCHANGED << file_registry, index, objects >>]_vars

\* C30: an upload that answers 500 leaves no registry entry, no stored object
\* and no indexed product of the generated file_id; an upload that answers 200
\* leaves a registry entry whose products_count is the number of products
\* indexed.
C30_UploadAllOrNothing ==
    /\ [][(response'.op = "upload" /\ response'.status = 500)
             => /\ response'.file_id \notin DOMAIN file_registry'
                /\ response'.file_id \notin objects'
                /\ index'[response'.file_id] = 0]_vars
    /\ [][(response'.op = "upload" /\ response'.status = 200)
             => /\ response'.file_id \in DOMAIN file_registry'
                /\ file_registry'[response'.file_id].products_count
                      = index'[response'.file_id]]_vars

====
